---- MODULE Spec2Model ----
(***************************************************************************)
(* Packy: the in-memory state store (js/state/store.js), the action layer  *)
(* (js/state/actions.js), the list constructors of the template service    *)
(* and the Ctrl+Z handler of js/app.js.                                    *)
(*                                                                         *)
(* Conventions.  Ids are positive integers and 0 is the null id.  Array    *)
(* indices computed by the code (findIndex, splice) keep their JavaScript  *)
(* values: 0-based, -1 for "not found".  A packing list is a record that   *)
(* carries the set `has` of the properties the JavaScript object owns, so  *)
(* that `{...null, items: [...]}` and a complete document are both values  *)
(* of the model; `null` marks the null list.                               *)
(***************************************************************************)
EXTENDS Integers, Sequences, FiniteSets, TLC

VARIABLES state, history, timers, now, lastOp, shadow, zrun, urun,
          listeners, subs, invoked, alias

vars == <<state, history, timers, now, lastOp, shadow, zrun, urun, listeners, subs, invoked, alias>>

----------------------------------------------------------------------------
(* Bounds of the exploration *)

MaxDepth == 3
MaxLog == 52
MaxItems == 5
MaxStages == 3
MaxTasks == 3
MaxTimers == 2
MaxClock == 1
MaxBags == 3
MaxCategories == 3
MaxAnyId == 3
MaxSubs == 2

(* Program constants *)

maxHistory == 50

Null == 0
QNull == "null"
QNaN == "NaN"

----------------------------------------------------------------------------
(* Sequence helpers standing for the Array methods the code uses *)

Front(s) == SubSeq(s, 1, Len(s) - 1)

Last(s) == s[Len(s)]

Filter(s, Test(_)) == SelectSeq(s, Test)

Map(s, F(_)) == [k \in DOMAIN s |-> F(s[k])]

Ids(s) == {s[k].id : k \in DOMAIN s}

\* Array.prototype.findIndex(e => e.id === id): 0-based, -1 when absent
FindIndex(s, id) ==
  IF \E k \in DOMAIN s : s[k].id = id
  THEN (CHOOSE k \in DOMAIN s : s[k].id = id /\ \A j \in 1..(k - 1) : s[j].id # id) - 1
  ELSE -1

\* Array.prototype.find(e => e.id === id); callers test Has first
Has(s, id) == \E k \in DOMAIN s : s[k].id = id

Find(s, id) == s[FindIndex(s, id) + 1]

\* Math.max(...s.map(e => e.order)) for a non-empty s
\* an entity without an order property carries NoOrder
NoOrder == 0 - 1

\* e.order ?? 0
OrderOrZero(e) == IF e.order = NoOrder THEN 0 ELSE e.order

\* Math.max(...s.map(e => e.order ?? 0))
MaxOrderOf(s) ==
  CHOOSE m \in {OrderOrZero(s[k]) : k \in DOMAIN s} : \A k \in DOMAIN s : OrderOrZero(s[k]) <= m

\* Array.prototype.sort with a consistent comparator is stable: the insertion step
InsertSorted(sorted, x) ==
  LET k == Cardinality({j \in DOMAIN sorted : OrderOrZero(sorted[j]) <= OrderOrZero(x)})
  IN SubSeq(sorted, 1, k) \o <<x>> \o SubSeq(sorted, k + 1, Len(sorted))

\* .sort((a, b) => (a.order ?? 0) - (b.order ?? 0))
RECURSIVE SortByOrder(_)
SortByOrder(s) ==
  IF s = <<>> THEN <<>> ELSE InsertSorted(SortByOrder(Front(s)), Last(s))

Arrangements(s) ==
  {[k \in DOMAIN s |-> s[p[k]]] :
     p \in {q \in [DOMAIN s -> DOMAIN s] : \A i, j \in DOMAIN s : q[i] = q[j] => i = j}}

\* .sort((a, b) => a.order - b.order): the difference is NaN, read as 0, when
\* an order is absent. An element without order then equals every other one,
\* while those are told apart: the comparator is not consistent and the
\* order the sort leaves is implementation-defined.
SortByOrderPlain(s) ==
  LET absent == {k \in DOMAIN s : s[k].order = NoOrder}
      present == {s[k].order : k \in DOMAIN s \ absent}
  IN IF absent = {} THEN {SortByOrder(s)}
     ELSE IF Cardinality(present) <= 1 THEN {s}
     ELSE Arrangements(s)

\* arr.splice(idx, 1) leaves arr without the element at 0-based idx
SpliceOut(s, idx) == SubSeq(s, 1, idx) \o SubSeq(s, idx + 2, Len(s))

\* arr.splice(idx, 0, x)
SpliceIn(s, idx, x) ==
  LET i == IF idx > Len(s) THEN Len(s) ELSE idx
  IN SubSeq(s, 1, i) \o <<x>> \o SubSeq(s, i + 1, Len(s))

\* arr.forEach((e, idx) => { e.order = idx; })
Renumber(s) == [k \in DOMAIN s |-> [s[k] EXCEPT !.order = k - 1]]

\* the smallest id of 1..n that no element of the collection carries
FreshId(used, n) == CHOOSE i \in 1..n : i \notin used /\ \A j \in 1..(i - 1) : j \in used

----------------------------------------------------------------------------
(* JavaScript numbers where NaN, the infinities and -0 matter (day counts   *)
(* and quantities): a number is kept as sign and magnitude. Every value the *)
(* code computes there is an integer, NaN or infinite, because a quotient   *)
(* is rounded up at once.                                                   *)

Fin(n) == [kind |-> "fin", neg |-> n < 0, mag |-> IF n < 0 THEN 0 - n ELSE n]

NegZero == [kind |-> "fin", neg |-> TRUE, mag |-> 0]

NaN == [kind |-> "nan", neg |-> FALSE, mag |-> 0]

Infinity(neg) == [kind |-> "inf", neg |-> neg, mag |-> 0]

ToInt(x) == IF x.neg THEN 0 - x.mag ELSE x.mag

IsZero(x) == x.kind = "fin" /\ x.mag = 0

\* left + right
Plus(a, b) ==
  CASE a.kind = "nan" \/ b.kind = "nan" -> NaN
    [] a.kind = "inf" /\ b.kind = "inf" -> IF a.neg = b.neg THEN a ELSE NaN
    [] a.kind = "inf" -> a
    [] b.kind = "inf" -> b
    [] OTHER -> IF ToInt(a) + ToInt(b) = 0
                THEN (IF a.neg /\ b.neg THEN NegZero ELSE Fin(0))
                ELSE Fin(ToInt(a) + ToInt(b))

Negate(x) == IF x.kind = "nan" THEN NaN ELSE [x EXCEPT !.neg = ~@]

\* left - right
Minus(a, b) == Plus(a, Negate(b))

\* left * right
Times(a, b) ==
  CASE a.kind = "nan" \/ b.kind = "nan" -> NaN
    [] (a.kind = "inf" /\ IsZero(b)) \/ (IsZero(a) /\ b.kind = "inf") -> NaN
    [] a.kind = "inf" \/ b.kind = "inf" -> Infinity(a.neg # b.neg)
    [] OTHER -> [kind |-> "fin", neg |-> a.neg # b.neg, mag |-> a.mag * b.mag]

\* Math.ceil(left / right)
CeilDivide(a, b) ==
  CASE a.kind = "nan" \/ b.kind = "nan" -> NaN
    [] a.kind = "inf" /\ b.kind = "inf" -> NaN
    [] IsZero(a) /\ IsZero(b) -> NaN
    [] a.kind = "inf" \/ IsZero(b) -> Infinity(a.neg # b.neg)
    [] b.kind = "inf" -> [kind |-> "fin", neg |-> a.neg # b.neg, mag |-> 0]
    [] OTHER -> IF a.neg # b.neg
                THEN [kind |-> "fin", neg |-> TRUE, mag |-> a.mag \div b.mag]
                ELSE [kind |-> "fin", neg |-> FALSE,
                      mag |-> (a.mag + b.mag - 1) \div b.mag]

\* an absent property
Undefined == [kind |-> "undefined", neg |-> FALSE, mag |-> 0]

\* null, and what JSON.stringify writes for NaN and the infinities
JsonNull == [kind |-> "null", neg |-> FALSE, mag |-> 0]

\* Math.abs(x)
Abs(x) == IF x.kind = "nan" THEN NaN ELSE [x EXCEPT !.neg = FALSE]

\* JSON.parse(JSON.stringify(x)) of a number
JsonNumber(x) ==
  CASE x.kind \in {"nan", "inf"} -> JsonNull
    [] x.kind = "fin" /\ x.mag = 0 -> [x EXCEPT !.neg = FALSE]
    [] OTHER -> x

----------------------------------------------------------------------------
(* Documents *)

MkItem(id, categoryId, order) ==
  [id |-> id, name |-> "item", categoryId |-> categoryId, order |-> order,
   quantityType |-> "single", quantity |-> "1", bagId |-> Null, packed |-> FALSE]

MkCategory(id) == [id |-> id, defaultBagId |-> Null]

MkTask(id, order) == [id |-> id, order |-> order, completed |-> FALSE]

MkStage(id, order, tasks) == [id |-> id, order |-> order, tasks |-> tasks]

MkBag(id) == [id |-> id, name |-> "bag"]

\* A date is the number of its calendar day; NoDate is the empty string an
\* emptied date input holds. The browser's time zone has daylight saving
\* time: the clocks are set back during the day before ClocksBack, so the
\* local midnights from day ClocksBack on are an hour later.
NoDate == 0

MaxDay == 4

ClocksBack == 3

\* parseLocalDate(dateStr), store.js lines 266-269: the instant of the local
\* midnight in hours; new Date(NaN, NaN, undefined) is an invalid Date
parseLocalDate(date) ==
  IF date = NoDate THEN NaN
  ELSE Fin(24 * date + (IF date >= ClocksBack THEN 1 ELSE 0))

\* dateService.calculateDays, store.js lines 280-286
calculateDays(departure, returnDate) ==
  LET start == parseLocalDate(departure)
      end == parseLocalDate(returnDate)
      diffTime == Abs(Minus(end, start))
      diffDays == CeilDivide(diffTime, Fin(24))
  IN Plus(diffDays, Fin(1))

MkTrip(departure, returnDate) ==
  [name |-> 1, departureDate |-> departure, returnDate |-> returnDate,
   calculatedDays |-> calculateDays(departure, returnDate)]

\* { ...undefined }: the trip of a document that has none
NoTrip ==
  [name |-> 0, departureDate |-> NoDate, returnDate |-> NoDate, calculatedDays |-> Undefined]

AllFields == {"meta", "trip", "bags", "categories", "items", "stages"}

MkList(categories, items, stages) ==
  [null |-> FALSE, has |-> AllFields, meta |-> [modifiedAt |-> 0], trip |-> MkTrip(1, 1),
   bags |-> <<>>, categories |-> categories, items |-> items, stages |-> stages]

\* currentList: null
NullList ==
  [null |-> TRUE, has |-> {}, meta |-> [modifiedAt |-> 0], trip |-> MkTrip(1, 1),
   bags |-> <<>>, categories |-> <<>>, items |-> <<>>, stages |-> <<>>]

\* { ...list }: spreading null gives the empty object
Spread(list) == [list EXCEPT !.null = FALSE]

\* list?.field || []
FieldOrEmpty(list, f) ==
  IF list.null \/ f \notin list.has THEN <<>>
  ELSE CASE f = "items" -> list.items
         [] f = "stages" -> list.stages
         [] f = "bags" -> list.bags
         [] f = "categories" -> list.categories

\* list.field.method(...) raises a TypeError when list is null or has no such array
Missing(list, f) == list.null \/ f \notin list.has

WithItems(list, items) == [Spread(list) EXCEPT !.items = items, !.has = @ \cup {"items"}]

WithStages(list, stages) == [Spread(list) EXCEPT !.stages = stages, !.has = @ \cup {"stages"}]

WithBags(list, bags) == [Spread(list) EXCEPT !.bags = bags, !.has = @ \cup {"bags"}]

WithCategories(list, categories) ==
  [Spread(list) EXCEPT !.categories = categories, !.has = @ \cup {"categories"}]

WithTrip(list, trip) == [Spread(list) EXCEPT !.trip = trip, !.has = @ \cup {"trip"}]

getDefaultCategories == [k \in 1..6 |-> MkCategory(k)]

getDefaultStages == <<MkStage(1, 1, <<>>), MkStage(2, 2, <<>>)>>

createEmptyList == MkList(getDefaultCategories, <<>>, getDefaultStages)

\* Documents handed to loadList by import and by template instantiation:
\* every order scope of each of them is dense.
ListA ==
  MkList(<<MkCategory(1), MkCategory(2)>>,
         <<MkItem(2, 1, 1), MkItem(4, 2, 0), MkItem(1, 1, 0), MkItem(5, 2, 1), MkItem(3, 1, 2)>>,
         <<>>)

ListB ==
  MkList(<<MkCategory(1)>>,
         <<MkItem(1, 1, 0)>>,
         <<MkStage(2, 1, <<MkTask(1, 0), MkTask(3, 2), MkTask(2, 1)>>),
           MkStage(1, 0, <<>>),
           MkStage(3, 2, <<MkTask(1, 0)>>)>>)

LoadableLists == {ListA, ListB}

\* A list with bags: bag 1 is the default bag of both categories and the bag of
\* item 1; bag 2 holds item 3; item 2 has no bag of its own.
ListC ==
  [MkList(<<[MkCategory(1) EXCEPT !.defaultBagId = 1], [MkCategory(2) EXCEPT !.defaultBagId = 1]>>,
          <<[MkItem(1, 1, 0) EXCEPT !.bagId = 1], MkItem(2, 1, 1),
            [MkItem(3, 2, 0) EXCEPT !.bagId = 2, !.packed = TRUE]>>,
          <<MkStage(1, 0, <<MkTask(1, 0), MkTask(2, 1)>>), MkStage(2, 1, <<MkTask(1, 0)>>)>>)
   EXCEPT !.bags = <<MkBag(1), MkBag(2)>>]

----------------------------------------------------------------------------
(* Store: js/state/store.js *)

\* modalConfig: title and content are texts, the callbacks (onRender, onClose)
\* are functions
NoModal == [open |-> FALSE, title |-> "", content |-> "", fns |-> FALSE]

NoToast == [shown |-> FALSE, message |-> "", type |-> ""]

getInitialState ==
  [currentList |-> NullList,
   ui |-> [currentView |-> "my-lists", currentSubview |-> "null",
           modal |-> NoModal, toast |-> NoToast, isLoading |-> FALSE],
   templates |-> <<>>,
   settings |-> "null"]

StateKeys == {"currentList", "ui", "templates", "settings"}

\* JSON.parse(JSON.stringify(v)): NaN is written as null, function-valued
\* properties are dropped.
JsonItem(i) == [i EXCEPT !.quantity = IF @ = QNaN THEN QNull ELSE @]

JsonList(list) ==
  [list EXCEPT !.items = Map(list.items, JsonItem),
               !.trip.calculatedDays = JsonNumber(@)]

JsonClone(s) == [s EXCEPT !.currentList = JsonList(@), !.ui.modal.fns = FALSE]

getState(st) == JsonClone(st.state)

\* { ...this.state, ...fragment }
Merge(s, frag) ==
  [currentList |-> IF "currentList" \in frag.keys THEN frag.val.currentList ELSE s.currentList,
   ui |-> IF "ui" \in frag.keys THEN frag.val.ui ELSE s.ui,
   templates |-> IF "templates" \in frag.keys THEN frag.val.templates ELSE s.templates,
   settings |-> IF "settings" \in frag.keys THEN frag.val.settings ELSE s.settings]

\* lines 78-83: refresh meta.modifiedAt when a list is present
Touch(s, t) ==
  IF s.currentList.null THEN s
  ELSE [s EXCEPT !.currentList.meta.modifiedAt = t, !.currentList.has = @ \cup {"meta"}]

\* PushHistory with `>=` for `>` at line 65: one entry too few is kept
PushHistoryEarlyEvict(h, s) ==
  LET pushed == Append(h, JsonClone(s))
  IN IF Len(pushed) >= maxHistory THEN Tail(pushed) ELSE pushed

\* lines 64-67: snapshot the whole state, evict the oldest entry beyond maxHistory
PushHistory(h, s) ==
  LET pushed == Append(h, JsonClone(s))
  IN IF Len(pushed) > maxHistory THEN Tail(pushed) ELSE pushed

\* A fragment is what an updater returns; `threw` marks an updater that raised.
Frag(keys, val) == [threw |-> FALSE, keys |-> keys, val |-> val]

Throw(val) == [threw |-> TRUE, keys |-> {}, val |-> val]

FragList(s, list) == Frag({"currentList"}, [s EXCEPT !.currentList = list])

FragUi(s, ui) == Frag({"ui"}, [s EXCEPT !.ui = ui])

\* setState with lines 64-67 moved below the update: the snapshot taken is the new state
setStateSnapshotAfter(st, frag, t) ==
  LET next == IF frag.threw THEN st.state ELSE Touch(Merge(st.state, frag), t)
  IN [state |-> next, history |-> PushHistory(st.history, next)]

\* setState(updater) on the store st = [state, history] at time t.  The
\* snapshot is pushed before the updater runs, so an updater that raises
\* leaves the pushed entry behind and the state untouched.
setState(st, frag, t) ==
  [state |-> IF frag.threw THEN st.state ELSE Touch(Merge(st.state, frag), t),
   history |-> PushHistory(st.history, st.state)]

\* lines 130-132
canUndo(st) == Len(st.history) > 0

\* lines 118-123: the value undo() returns
undoReturns(st) == Len(st.history) > 0

\* undo that falls back to getInitialState() when there is nothing to restore
undoOrReset(st) ==
  IF Len(st.history) > 0
  THEN [state |-> Last(st.history), history |-> Front(st.history)]
  ELSE [state |-> getInitialState, history |-> <<>>]

\* lines 117-124
undo(st) ==
  IF Len(st.history) > 0
  THEN [state |-> Last(st.history), history |-> Front(st.history)]
  ELSE st

\* The listener functions handed to subscribe(); listener 2 raises whenever it is called
ListenerFns == {1, 2}

Throws(f) == f = 2

\* lines 94-95: Set.prototype.add keeps insertion order and holds a function once
subscribe(ls, f) ==
  IF \E k \in DOMAIN ls : ls[k] = f THEN ls ELSE Append(ls, f)

\* an unsubscribe closure that empties the Set instead of deleting its listener
unsubscribeAll(ls, f) == <<>>

\* line 96: the closure subscribe returns: Set.prototype.delete of that function
unsubscribe(ls, f) == SelectSeq(ls, LAMBDA g : g # f)

\* lines 104-110: the listeners called, in order; `caught` tells whether the call
\* is wrapped in try/catch
RECURSIVE notifyFrom(_, _)
notifyFrom(ls, caught) ==
  IF ls = <<>> THEN <<>>
  ELSE <<Head(ls)>> \o (IF Throws(Head(ls)) /\ ~caught THEN <<>>
                        ELSE notifyFrom(Tail(ls), caught))

\* notify with the try/catch of lines 105-109 dropped: the first raise ends the loop
notifyNoCatch(ls) == notifyFrom(ls, FALSE)

\* lines 102-111: the listeners notify() calls
notify(ls) == notifyFrom(ls, TRUE)

\* The arrays of currentList an Action's updater builds anew; the others are
\* carried over by { ...state.currentList }.  loadList and clearCurrentList pass
\* an object, not a function: no state is handed out.
Writes(name) ==
  CASE name \in {"addItem", "updateItem", "toggleItemPacked", "moveItemToCategory",
                 "moveItemToBag", "reorderItem", "removeItem"} -> {"items"}
    [] name \in {"addStage", "removeStage", "reorderStage", "addTaskToStage",
                 "removeTask", "reorderTask"} -> {"stages"}
    [] name \in {"addBag", "updateBag"} -> {"bags"}
    [] name = "removeBag" -> {"bags", "categories", "items"}
    [] name \in {"addCategory", "setCategoryDefaultBag"} -> {"categories"}
    [] name = "removeCategory" -> {"categories", "items"}
    [] OTHER -> AllFields

\* lines 71-72: this.state = { ...this.state, ...updater(this.getState()) } is a
\* shallow merge.  Shared is the set of parts of the new store state that are the
\* very objects of the state s handed to the updater: all of them when the
\* updater returned s itself, the arrays it did not rebuild when it returned a
\* new currentList.  (Objects shared below array level are left out.)
Shared(s, frag, name) ==
  LET owned == IF s.currentList.null THEN {} ELSE s.currentList.has \ {"meta"}
  IN IF frag.keys = StateKeys THEN owned \cup {"ui"}
     ELSE IF frag.keys = {"currentList"} /\ name \notin {"loadList", "clearCurrentList"}
     THEN owned \ Writes(name)
     ELSE {}

\* an in-place write to one part of a state object: ui.currentView = ..., array.length = 0
Scribble(s, part) ==
  CASE part = "ui" -> [s EXCEPT !.ui.currentView = "scribbled"]
    [] part = "bags" -> [s EXCEPT !.currentList.bags = <<>>]
    [] part = "categories" -> [s EXCEPT !.currentList.categories = <<>>]
    [] part = "items" -> [s EXCEPT !.currentList.items = <<>>]
    [] part = "stages" -> [s EXCEPT !.currentList.stages = <<>>]

store == [state |-> state, history |-> history]

----------------------------------------------------------------------------
(* Action layer, trip, bags and categories: js/state/actions.js lines 19-176 *)

\* lines 19-29
setTrip(s, departure, returnDate) ==
  FragList(s, WithTrip(s.currentList, MkTrip(departure, returnDate)))

\* lines 36-46; state.currentList.trip of a null list raises a TypeError, and
\* so does parseLocalDate(undefined) when the document has no trip
updateTripField(s, field, value) ==
  LET dated == field \in {"departureDate", "returnDate"}
  IN IF s.currentList.null \/ (dated /\ Missing(s.currentList, "trip")) THEN Throw(s)
     ELSE LET old == IF Missing(s.currentList, "trip") THEN NoTrip ELSE s.currentList.trip
              trip == CASE field = "name" -> [old EXCEPT !.name = value]
                        [] field = "departureDate" -> [old EXCEPT !.departureDate = value]
                        [] field = "returnDate" -> [old EXCEPT !.returnDate = value]
                        [] field = "calculatedDays" -> [old EXCEPT !.calculatedDays = Fin(value)]
          IN IF dated
             THEN FragList(s, WithTrip(s.currentList,
                    [trip EXCEPT !.calculatedDays =
                                   calculateDays(trip.departureDate, trip.returnDate)]))
             ELSE FragList(s, WithTrip(s.currentList, trip))

\* lines 65-70; bag is the object lines 58-63 build
addBag(s, bag) ==
  FragList(s, WithBags(s.currentList, Append(FieldOrEmpty(s.currentList, "bags"), bag)))

\* removeBag that forgets the items: only the categories' defaultBagId is nulled
removeBagKeepItemRefs(s, bagId) ==
  IF \E f \in {"bags", "categories", "items"} : Missing(s.currentList, f) THEN Throw(s)
  ELSE FragList(s,
         [Spread(s.currentList) EXCEPT
            !.bags = Filter(s.currentList.bags, LAMBDA b : b.id # bagId),
            !.categories = Map(s.currentList.categories, LAMBDA c :
                                 IF c.defaultBagId = bagId THEN [c EXCEPT !.defaultBagId = Null]
                                 ELSE c)])

\* removeBag without lines 100-106: the bag goes, the references to it stay
removeBagNoCascade(s, bagId) ==
  IF \E f \in {"bags", "categories", "items"} : Missing(s.currentList, f) THEN Throw(s)
  ELSE FragList(s, WithBags(s.currentList, Filter(s.currentList.bags, LAMBDA b : b.id # bagId)))

\* lines 95-109
removeBag(s, bagId) ==
  IF \E f \in {"bags", "categories", "items"} : Missing(s.currentList, f) THEN Throw(s)
  ELSE FragList(s,
         [Spread(s.currentList) EXCEPT
            !.bags = Filter(s.currentList.bags, LAMBDA b : b.id # bagId),
            !.categories = Map(s.currentList.categories, LAMBDA c :
                                 IF c.defaultBagId = bagId THEN [c EXCEPT !.defaultBagId = Null]
                                 ELSE c),
            !.items = Map(s.currentList.items, LAMBDA i :
                            IF i.bagId = bagId THEN [i EXCEPT !.bagId = Null] ELSE i)])

\* lines 127-132; category is the object lines 121-126 build
addCategory(s, category) ==
  FragList(s, WithCategories(s.currentList,
                             Append(FieldOrEmpty(s.currentList, "categories"), category)))

\* lines 159-161 through updateCategory, lines 143-152
setCategoryDefaultBag(s, categoryId, bagId) ==
  IF Missing(s.currentList, "categories") THEN Throw(s)
  ELSE FragList(s, WithCategories(s.currentList,
         Map(s.currentList.categories, LAMBDA c :
               IF c.id = categoryId THEN [c EXCEPT !.defaultBagId = bagId] ELSE c)))

\* removeCategory that leaves the items of the category in place
removeCategoryKeepItems(s, categoryId) ==
  IF \E f \in {"categories", "items"} : Missing(s.currentList, f) THEN Throw(s)
  ELSE FragList(s,
         [Spread(s.currentList) EXCEPT
            !.categories = Filter(s.currentList.categories, LAMBDA c : c.id # categoryId)])

\* lines 167-176
removeCategory(s, categoryId) ==
  IF \E f \in {"categories", "items"} : Missing(s.currentList, f) THEN Throw(s)
  ELSE FragList(s,
         [Spread(s.currentList) EXCEPT
            !.categories = Filter(s.currentList.categories, LAMBDA c : c.id # categoryId),
            !.items = Filter(s.currentList.items, LAMBDA i : i.categoryId # categoryId)])

----------------------------------------------------------------------------
(* Action layer, items: js/state/actions.js lines 187-354 *)

\* lines 188-204: the item addItem builds from the state it reads first
addItemNew(s, categoryId, id) ==
  LET currentItems == FieldOrEmpty(s.currentList, "items")
      categoryItems == Filter(currentItems, LAMBDA i : i.categoryId = categoryId)
      maxOrder == IF Len(categoryItems) > 0 THEN MaxOrderOf(categoryItems) ELSE -1
  IN MkItem(id, categoryId, maxOrder + 1)

\* lines 206-211
addItem(s, item) ==
  FragList(s, WithItems(s.currentList, Append(FieldOrEmpty(s.currentList, "items"), item)))

\* lines 221-230; Upd is the `updates` object applied to the matching item
updateItem(s, itemId, Upd(_)) ==
  IF Missing(s.currentList, "items") THEN Throw(s)
  ELSE FragList(s, WithItems(s.currentList,
         Map(s.currentList.items, LAMBDA i : IF i.id = itemId THEN Upd(i) ELSE i)))

\* lines 236-245
toggleItemPacked(s, itemId) ==
  updateItem(s, itemId, LAMBDA i : [i EXCEPT !.packed = ~@])

\* lines 252-254
moveItemToBag(s, itemId, bagId) ==
  updateItem(s, itemId, LAMBDA i : [i EXCEPT !.bagId = bagId])

\* lines 261-270; s0 is the state read before updateItem is called
moveItemToCategory(s0, s, itemId, newCategoryId) ==
  LET items == FieldOrEmpty(s0.currentList, "items")
      categoryItems == Filter(items, LAMBDA i : i.categoryId = newCategoryId)
      maxOrder == IF Len(categoryItems) > 0 THEN MaxOrderOf(categoryItems) ELSE -1
  IN updateItem(s, itemId, LAMBDA i : [i EXCEPT !.categoryId = newCategoryId, !.order = maxOrder + 1])

\* lines 286-312: the moved item enters the category of the target
reorderItemCross(items, itemId, targetItemId, position) ==
  LET targetItem == Find(items, targetItemId)
      targetCategoryItems ==
        SortByOrder(Filter(items, LAMBDA i : i.categoryId = targetItem.categoryId))
      targetIndex == FindIndex(targetCategoryItems, targetItemId)
      newOrder == IF position = "before" THEN targetIndex ELSE targetIndex + 1
      shifted == [k \in DOMAIN targetCategoryItems |->
                    IF k - 1 >= newOrder
                    THEN [targetCategoryItems[k] EXCEPT !.order = (k - 1) + 1]
                    ELSE targetCategoryItems[k]]
  IN Map(items, LAMBDA i :
       IF i.id = itemId
       THEN [i EXCEPT !.categoryId = targetItem.categoryId, !.order = newOrder]
       ELSE IF Has(shifted, i.id) THEN Find(shifted, i.id) ELSE i)

\* reorderItemSame without line 322: the insertion index is not decremented when
\* the moved item stood before it
reorderItemSameNoShift(items, itemId, targetItemId, position) ==
  LET item == Find(items, itemId)
      categoryItems == SortByOrder(Filter(items, LAMBDA i : i.categoryId = item.categoryId))
      oldIndex == FindIndex(categoryItems, itemId)
      targetIndex == FindIndex(categoryItems, targetItemId)
      newIndex == IF position = "before" THEN targetIndex ELSE targetIndex + 1
      movedItem == categoryItems[oldIndex + 1]
      reordered == Renumber(SpliceIn(SpliceOut(categoryItems, oldIndex), newIndex, movedItem))
  IN Map(items, LAMBDA i : IF Has(reordered, i.id) THEN Find(reordered, i.id) ELSE i)

\* lines 314-339: both items are in the same category
reorderItemSame(items, itemId, targetItemId, position) ==
  LET item == Find(items, itemId)
      categoryItems == SortByOrder(Filter(items, LAMBDA i : i.categoryId = item.categoryId))
      oldIndex == FindIndex(categoryItems, itemId)
      targetIndex == FindIndex(categoryItems, targetItemId)
      newIndex0 == IF position = "before" THEN targetIndex ELSE targetIndex + 1
      newIndex == IF oldIndex < newIndex0 THEN newIndex0 - 1 ELSE newIndex0
      movedItem == categoryItems[oldIndex + 1]
      reordered == Renumber(SpliceIn(SpliceOut(categoryItems, oldIndex), newIndex, movedItem))
  IN Map(items, LAMBDA i : IF Has(reordered, i.id) THEN Find(reordered, i.id) ELSE i)

\* lines 278-341
reorderItem(s, itemId, targetItemId, position) ==
  IF Missing(s.currentList, "items") THEN Throw(s)
  ELSE LET items == s.currentList.items
       IN IF ~Has(items, itemId) \/ ~Has(items, targetItemId) THEN Frag(StateKeys, s)
          ELSE IF Find(items, itemId).categoryId # Find(items, targetItemId).categoryId
          THEN FragList(s, WithItems(s.currentList,
                                     reorderItemCross(items, itemId, targetItemId, position)))
          ELSE FragList(s, WithItems(s.currentList,
                                     reorderItemSame(items, itemId, targetItemId, position)))

\* lines 347-354
removeItem(s, itemId) ==
  IF Missing(s.currentList, "items") THEN Throw(s)
  ELSE FragList(s, WithItems(s.currentList,
                             Filter(s.currentList.items, LAMBDA i : i.id # itemId)))

----------------------------------------------------------------------------
(* Action layer, stages and tasks: js/state/actions.js lines 365-580 *)

\* lines 366-374
addStageNew(s, id) ==
  MkStage(id, Len(FieldOrEmpty(s.currentList, "stages")), <<>>)

\* lines 376-381
addStage(s, stage) ==
  FragList(s, WithStages(s.currentList, Append(FieldOrEmpty(s.currentList, "stages"), stage)))

\* lines 406-413
removeStage(s, stageId) ==
  IF Missing(s.currentList, "stages") THEN Throw(s)
  ELSE FragList(s, WithStages(s.currentList,
                              Filter(s.currentList.stages, LAMBDA g : g.id # stageId)))

\* reorderStage whose guard tests the dragged stage only: with an absent target
\* targetIndex is -1 and splice(-1, 0, x) / splice(0, 0, x) still moves the stage
reorderStageNoTargetGuard(s, stageId, targetStageId, position, sorted) ==
  IF Missing(s.currentList, "stages") THEN Throw(s)
  ELSE LET stages == sorted
           draggedIndex == FindIndex(stages, stageId)
           targetIndex == FindIndex(stages, targetStageId)
           newIndex0 == IF position = "before" THEN targetIndex ELSE targetIndex + 1
           newIndex == IF draggedIndex < newIndex0 THEN newIndex0 - 1 ELSE newIndex0
           rest == SpliceOut(stages, draggedIndex)
           at == IF newIndex >= 0 THEN newIndex
                 ELSE IF Len(rest) + newIndex > 0 THEN Len(rest) + newIndex ELSE 0
       IN IF draggedIndex = -1 THEN Frag(StateKeys, s)
          ELSE FragList(s, WithStages(s.currentList,
                 Renumber(SpliceIn(rest, at, stages[draggedIndex + 1]))))

\* the arrays line 423 can leave in stages
StageSorts(s) ==
  IF Missing(s.currentList, "stages") THEN {<<>>} ELSE SortByOrderPlain(s.currentList.stages)

\* lines 421-442; sorted is the array the sort call of line 423 leaves
reorderStage(s, stageId, targetStageId, position, sorted) ==
  IF Missing(s.currentList, "stages") THEN Throw(s)
  ELSE LET stages == sorted
           draggedIndex == FindIndex(stages, stageId)
           targetIndex == FindIndex(stages, targetStageId)
           newIndex0 == IF position = "before" THEN targetIndex ELSE targetIndex + 1
           newIndex == IF draggedIndex < newIndex0 THEN newIndex0 - 1 ELSE newIndex0
       IN IF draggedIndex = -1 \/ targetIndex = -1 THEN Frag(StateKeys, s)
          ELSE FragList(s, WithStages(s.currentList,
                 Renumber(SpliceIn(SpliceOut(stages, draggedIndex), newIndex,
                                   stages[draggedIndex + 1]))))

\* lines 450-472; id is the id generateShortId returns
addTaskToStage(s, stageId, id) ==
  IF Missing(s.currentList, "stages") THEN Throw(s)
  ELSE LET stages == s.currentList.stages
           maxOrder == IF Has(stages, stageId) /\ Len(Find(stages, stageId).tasks) > 0
                       THEN MaxOrderOf(Find(stages, stageId).tasks) ELSE -1
           task == MkTask(id, maxOrder + 1)
       IN FragList(s, WithStages(s.currentList,
            Map(stages, LAMBDA g : IF g.id = stageId
                                   THEN [g EXCEPT !.tasks = Append(@, task)] ELSE g)))

\* lines 531-542
removeTask(s, stageId, taskId) ==
  IF Missing(s.currentList, "stages") THEN Throw(s)
  ELSE FragList(s, WithStages(s.currentList,
         Map(s.currentList.stages, LAMBDA g :
           IF g.id = stageId
           THEN [g EXCEPT !.tasks = Filter(g.tasks, LAMBDA t : t.id # taskId)] ELSE g)))

\* lines 551-580
reorderTask(s, stageId, taskId, targetTaskId, position) ==
  IF Missing(s.currentList, "stages") THEN Throw(s)
  ELSE IF ~Has(s.currentList.stages, stageId) THEN Frag(StateKeys, s)
  ELSE LET stage == Find(s.currentList.stages, stageId)
           tasks == SortByOrder(stage.tasks)
           draggedIndex == FindIndex(tasks, taskId)
           targetIndex == FindIndex(tasks, targetTaskId)
           newIndex0 == IF position = "before" THEN targetIndex ELSE targetIndex + 1
           newIndex == IF draggedIndex < newIndex0 THEN newIndex0 - 1 ELSE newIndex0
       IN IF draggedIndex = -1 \/ targetIndex = -1 THEN Frag(StateKeys, s)
          ELSE LET reordered == Renumber(SpliceIn(SpliceOut(tasks, draggedIndex), newIndex,
                                                  tasks[draggedIndex + 1]))
               IN FragList(s, WithStages(s.currentList,
                    Map(s.currentList.stages, LAMBDA g :
                      IF g.id = stageId THEN [g EXCEPT !.tasks = reordered] ELSE g)))

----------------------------------------------------------------------------
(* Action layer, list and UI: js/state/actions.js lines 590-666 *)

\* lines 590-592: a non-function updater
loadList(s, listData) == FragList(s, listData)

\* lines 597-599
clearCurrentList(s) == FragList(s, NullList)

\* lines 610-618
navigateTo(s, view, subview) ==
  FragUi(s, [s.ui EXCEPT !.currentView = view, !.currentSubview = subview])

\* lines 624-628
showModal(s, modalConfig) == FragUi(s, [s.ui EXCEPT !.modal = modalConfig])

\* lines 633-637
hideModal(s) == FragUi(s, [s.ui EXCEPT !.modal = NoModal])

\* lines 646-648
showToast(s, message, type) ==
  FragUi(s, [s.ui EXCEPT !.toast = [shown |-> TRUE, message |-> message, type |-> type]])

\* lines 651-655: the auto-hide callback
hideToast(s) == FragUi(s, [s.ui EXCEPT !.toast = NoToast])

\* lines 662-666
setLoading(s, isLoading) == FragUi(s, [s.ui EXCEPT !.isLoading = isLoading])

----------------------------------------------------------------------------
(* Bookkeeping of the verification: what the last call was, the log of the *)
(* states observed through getState() right before each setState call that *)
(* has not been undone, and the runs of calls the undo claims speak about. *)

OpRec(name, a, b, c, pos, ret, notified, threw) ==
  [name |-> name, a |-> a, b |-> b, c |-> c, pos |-> pos,
   ret |-> ret, notified |-> notified, threw |-> threw]

Op(name, a, b, c, pos) == [name |-> name, a |-> a, b |-> b, c |-> c, pos |-> pos]

ZIdle == [active |-> FALSE, base |-> NullList, n |-> 0, z |-> 0]

\* a document-mutating Action starts or extends a run of Actions
ZAction(pre) ==
  IF zrun.active /\ zrun.z = 0 /\ zrun.n < maxHistory
  THEN [zrun EXCEPT !.n = @ + 1]
  ELSE [active |-> TRUE, base |-> pre.currentList, n |-> 1, z |-> 0]

\* a Ctrl+Z press extends the run of presses that follows a run of Actions
ZPress ==
  IF zrun.active /\ zrun.z < zrun.n THEN [zrun EXCEPT !.z = @ + 1] ELSE ZIdle

ZNext(kind, threw, pre) ==
  CASE kind = "action" /\ ~threw -> ZAction(pre)
    [] kind = "timer" -> zrun
    [] kind = "untracked" -> zrun
    [] OTHER -> ZIdle

URunSet == [m |-> IF urun.u > 0 THEN 1
                  ELSE IF urun.m > maxHistory THEN urun.m ELSE urun.m + 1,
            u |-> 0]

URunUndo == [urun EXCEPT !.u = @ + 1]

\* One setState call: store.js lines 62-87; notify() is reached unless the updater raised
Commit(frag, op, kind, newTimers) ==
  LET after == setState(store, frag, now)
  IN /\ state' = after.state
     /\ history' = after.history
     /\ timers' = newTimers
     /\ shadow' = Append(shadow, getState(store))
     /\ urun' = URunSet
     /\ zrun' = ZNext(kind, frag.threw, getState(store))
     /\ lastOp' = OpRec(op.name, op.a, op.b, op.c, op.pos, TRUE, ~frag.threw, frag.threw)
     /\ invoked' = IF frag.threw THEN <<>> ELSE notify(listeners)
     /\ alias' = IF frag.threw THEN {} ELSE Shared(getState(store), frag, op.name)
     /\ UNCHANGED <<now, listeners, subs>>

Room == Len(history) < MaxDepth

TypeOK ==
  /\ Len(history) <= maxHistory
  /\ timers \in 0..(MaxTimers + 1)
  /\ now \in 0..(MaxClock + 1)

Init ==
  /\ state = getInitialState
  /\ history = <<>>
  /\ timers = 0
  /\ now = 0
  /\ lastOp = OpRec("init", 0, 0, 0, "", FALSE, FALSE, FALSE)
  /\ shadow = <<>>
  /\ zrun = ZIdle
  /\ urun = [m |-> 0, u |-> 0]
  /\ listeners = <<>>
  /\ subs = [f \in ListenerFns |-> 0]
  /\ invoked = <<>>
  /\ alias = {}

----------------------------------------------------------------------------
(* Calls *)

CurList == getState(store).currentList

ItemIds == Ids(FieldOrEmpty(CurList, "items"))

CategoryIds == Ids(FieldOrEmpty(CurList, "categories"))

StageIds == Ids(FieldOrEmpty(CurList, "stages"))

TaskIds(stageId) ==
  IF Has(FieldOrEmpty(CurList, "stages"), stageId)
  THEN Ids(Find(CurList.stages, stageId).tasks) ELSE {}

Positions == {"before", "after"}

\* MyListsView / TemplatesView: loadList(templateService.createEmptyList(tripData))
LoadEmptyList ==
  /\ Room
  /\ Commit(loadList(getState(store), [createEmptyList EXCEPT !.meta.modifiedAt = now]),
            Op("loadList", 0, 0, 0, "empty"), "other", timers)

\* import and template instantiation: loadList(result.data), loadList(list)
LoadList(listData) ==
  /\ Room
  /\ Commit(loadList(getState(store), listData), Op("loadList", 0, 0, 0, "data"), "other", timers)

AddItem(categoryId) ==
  LET s == getState(store)
      id == FreshId(ItemIds, MaxItems)
  IN /\ Room
     /\ Cardinality(ItemIds) < MaxItems
     /\ Commit(addItem(s, addItemNew(s, categoryId, id)),
               Op("addItem", id, categoryId, 0, ""), "untracked", timers)

MoveItemToCategory(itemId, newCategoryId) ==
  /\ Room
  /\ Commit(moveItemToCategory(getState(store), getState(store), itemId, newCategoryId),
            Op("moveItemToCategory", itemId, newCategoryId, 0, ""), "untracked", timers)

ReorderItem(itemId, targetItemId, position) ==
  /\ Room
  /\ Commit(reorderItem(getState(store), itemId, targetItemId, position),
            Op("reorderItem", itemId, targetItemId, 0, position), "untracked", timers)

RemoveItem(itemId) ==
  /\ Room
  /\ Commit(removeItem(getState(store), itemId),
            Op("removeItem", itemId, 0, 0, ""), "untracked", timers)

AddStage ==
  LET s == getState(store)
      id == FreshId(StageIds, MaxStages)
  IN /\ Room
     /\ ~CurList.null
     /\ Cardinality(StageIds) < MaxStages
     /\ Commit(addStage(s, addStageNew(s, id)), Op("addStage", id, 0, 0, ""), "untracked", timers)

RemoveStage(stageId) ==
  /\ Room
  /\ Commit(removeStage(getState(store), stageId),
            Op("removeStage", stageId, 0, 0, ""), "untracked", timers)

ReorderStage(stageId, targetStageId, position) ==
  /\ Room
  /\ \E sorted \in StageSorts(getState(store)) :
       Commit(reorderStage(getState(store), stageId, targetStageId, position, sorted),
              Op("reorderStage", stageId, targetStageId, 0, position), "untracked", timers)

AddTaskToStage(stageId) ==
  LET id == FreshId(TaskIds(stageId), MaxTasks)
  IN /\ Room
     /\ Cardinality(TaskIds(stageId)) < MaxTasks
     /\ Commit(addTaskToStage(getState(store), stageId, id),
               Op("addTaskToStage", id, 0, stageId, ""), "untracked", timers)

RemoveTask(stageId, taskId) ==
  /\ Room
  /\ Commit(removeTask(getState(store), stageId, taskId),
            Op("removeTask", taskId, 0, stageId, ""), "untracked", timers)

ReorderTask(stageId, taskId, targetTaskId, position) ==
  /\ Room
  /\ Commit(reorderTask(getState(store), stageId, taskId, targetTaskId, position),
            Op("reorderTask", taskId, targetTaskId, stageId, position), "untracked", timers)

\* store.undo(), reached through window.Packy.undo: store.js lines 117-124
Undo ==
  LET ok == undoReturns(store)
      after == undo(store)
  IN /\ state' = after.state
     /\ history' = after.history
     /\ shadow' = IF ok THEN Front(shadow) ELSE shadow
     /\ urun' = IF ok THEN URunUndo ELSE urun
     /\ zrun' = ZIdle
     /\ lastOp' = OpRec("undo", 0, 0, 0, "", ok, ok, FALSE)
     /\ invoked' = IF ok THEN notify(listeners) ELSE <<>>
     /\ alias' = {}
     /\ UNCHANGED <<timers, now, listeners, subs>>

\* MyListsView: toggleItemPacked(itemId) from the Pack! tab
ToggleItemPacked(itemId) ==
  /\ Room
  /\ Commit(toggleItemPacked(getState(store), itemId),
            Op("toggleItemPacked", itemId, 0, 0, ""), "action", timers)

\* MyListsView.showEditItemModal, Save: updateItem(itemId, {quantity: parseInt(...)});
\* parseInt of an emptied field is NaN
UpdateItemQuantity(itemId, quantity) ==
  /\ Room
  /\ Commit(updateItem(getState(store), itemId, LAMBDA i : [i EXCEPT !.quantity = quantity]),
            Op("updateItem", itemId, 0, 0, quantity), "action", timers)

ClearCurrentList ==
  /\ Room
  /\ Commit(clearCurrentList(getState(store)), Op("clearCurrentList", 0, 0, 0, ""), "action", timers)

NavigateTo(view) ==
  /\ Room
  /\ Commit(navigateTo(getState(store), view, "null"), Op("navigateTo", 0, 0, 0, view), "other", timers)

\* the modal configuration carries the onRender callback
ShowModal ==
  /\ Room
  /\ Commit(showModal(getState(store), [open |-> TRUE, title |-> "Edit Item", content |-> "", fns |-> TRUE]),
            Op("showModal", 0, 0, 0, ""), "other", timers)

HideModal ==
  /\ Room
  /\ Commit(hideModal(getState(store)), Op("hideModal", 0, 0, 0, ""), "other", timers)

\* actions.js lines 645-656: the toast is set and its auto-hide timer is started
ShowToast ==
  /\ Room
  /\ timers < MaxTimers
  /\ Commit(showToast(getState(store), "Item moved", "success"),
            Op("showToast", 0, 0, 0, ""), "other", timers + 1)

\* actions.js lines 651-655: an auto-hide timer fires
TimerFires ==
  /\ Room
  /\ timers > 0
  /\ Commit(hideToast(getState(store)), Op("hideToast", 0, 0, 0, ""), "timer", timers - 1)

SetLoading(isLoading) ==
  /\ Room
  /\ Commit(setLoading(getState(store), isLoading),
            Op("setLoading", 0, 0, 0, ""), "other", timers)

\* app.js lines 109-117: Ctrl/Cmd+Z: if (store.undo()) showToast('Undone', 'info', 1500)
KeyCtrlZ ==
  LET ok == undoReturns(store)
      undone == undo(store)
      after == setState(undone, showToast(getState(undone), "Undone", "info"), now)
  IN /\ ok => timers < MaxTimers
     /\ state' = IF ok THEN after.state ELSE state
     /\ history' = IF ok THEN after.history ELSE history
     /\ timers' = IF ok THEN timers + 1 ELSE timers
     /\ shadow' = IF ok THEN Append(Front(shadow), getState(undone)) ELSE shadow
     /\ urun' = IF ok THEN [m |-> 1, u |-> 0] ELSE urun
     /\ zrun' = ZPress
     /\ lastOp' = OpRec("ctrlZ", 0, 0, 0, "", ok, ok, FALSE)
     /\ invoked' = IF ok THEN notify(listeners) \o notify(listeners) ELSE <<>>
     /\ alias' = IF ok THEN Shared(getState(undone), showToast(getState(undone), "Undone", "info"), "showToast")
                ELSE alias
     /\ UNCHANGED <<now, listeners, subs>>

\* time passes: new Date() reads a later instant
Tick ==
  /\ now < MaxClock
  /\ now' = now + 1
  /\ lastOp' = OpRec("tick", 0, 0, 0, "", FALSE, FALSE, FALSE)
  /\ UNCHANGED <<state, history, timers, shadow, zrun, urun, listeners, subs, invoked, alias>>

Next ==
  \/ LoadEmptyList
  \/ \E l \in LoadableLists : LoadList(l)
  \/ \E c \in CategoryIds : AddItem(c)
  \/ \E i \in ItemIds, c \in CategoryIds : MoveItemToCategory(i, c)
  \/ \E i \in ItemIds, j \in ItemIds, p \in Positions : ReorderItem(i, j, p)
  \/ \E i \in ItemIds : RemoveItem(i)
  \/ AddStage
  \/ \E g \in StageIds : RemoveStage(g)
  \/ \E g \in StageIds, h \in StageIds, p \in Positions : ReorderStage(g, h, p)
  \/ \E g \in StageIds : AddTaskToStage(g)
  \/ \E g \in StageIds : \E t \in TaskIds(g) : RemoveTask(g, t)
  \/ \E g \in StageIds : \E t \in TaskIds(g), u \in TaskIds(g), p \in Positions : ReorderTask(g, t, u, p)
  \/ Undo

Spec == Init /\ [][Next]_vars

----------------------------------------------------------------------------
(* Vocabulary of the properties *)

\* the document observed right before the last setState call, and the current one
PreList == Last(shadow).currentList

PostList == getState(store).currentList

Called(name) == lastOp.name = name /\ ~lastOp.threw /\ shadow # <<>>

\* order values forming exactly 0..n-1: no gap, no duplicate
Dense(scope) == {scope[k].order : k \in DOMAIN scope} = 0..(Len(scope) - 1)

ItemsOfCategory(list, c) == Filter(list.items, LAMBDA i : i.categoryId = c)

CategoriesOfItems(list) == {list.items[k].categoryId : k \in DOMAIN list.items}

TasksOfStage(list, g) == Find(list.stages, g).tasks

DenseList(list) ==
  /\ \A c \in CategoriesOfItems(list) : Dense(ItemsOfCategory(list, c))
  /\ Dense(list.stages)
  /\ \A k \in DOMAIN list.stages : Dense(list.stages[k].tasks)

\* x is displayed before y: by order, ties by array position (the sort is stable)
ShownBefore(scope, x, y) ==
  \/ Find(scope, x).order < Find(scope, y).order
  \/ Find(scope, x).order = Find(scope, y).order /\ FindIndex(scope, x) < FindIndex(scope, y)

OrderIn(scope, id) == Find(scope, id).order

\* the moved entity sits right before / right after the target, the others keep
\* their relative order, and the scope is renumbered 0..n-1
PlacedBeside(preScope, postScope, moved, target, position) ==
  /\ Len(postScope) = Len(preScope)
  /\ Ids(postScope) = Ids(preScope)
  /\ Dense(postScope)
  /\ OrderIn(postScope, moved) =
       OrderIn(postScope, target) + (IF position = "before" THEN -1 ELSE 1)
  /\ \A x \in Ids(preScope) \ {moved}, y \in Ids(preScope) \ {moved} :
       x # y => (ShownBefore(preScope, x, y) <=> OrderIn(postScope, x) < OrderIn(postScope, y))

SameCategoryReorder ==
  /\ Called("reorderItem")
  /\ lastOp.a # lastOp.b
  /\ Has(PreList.items, lastOp.a) /\ Has(PreList.items, lastOp.b)
  /\ Find(PreList.items, lastOp.a).categoryId = Find(PreList.items, lastOp.b).categoryId

CrossCategoryReorder ==
  /\ Called("reorderItem")
  /\ Has(PreList.items, lastOp.a) /\ Has(PreList.items, lastOp.b)
  /\ Find(PreList.items, lastOp.a).categoryId # Find(PreList.items, lastOp.b).categoryId

StageReorder ==
  /\ Called("reorderStage")
  /\ lastOp.a # lastOp.b
  /\ Has(PreList.stages, lastOp.a) /\ Has(PreList.stages, lastOp.b)

TaskReorder ==
  /\ Called("reorderTask")
  /\ lastOp.a # lastOp.b
  /\ Has(PreList.stages, lastOp.c)
  /\ Has(TasksOfStage(PreList, lastOp.c), lastOp.a)
  /\ Has(TasksOfStage(PreList, lastOp.c), lastOp.b)

OriginCategory == Find(PreList.items, lastOp.a).categoryId

TargetCategory == Find(PreList.items, lastOp.b).categoryId

----------------------------------------------------------------------------
(* Ordering claims, checked under Spec *)

\* C1: in every document built by createEmptyList or loaded dense, and after any
\* sequence of Actions, every order scope (the items of each category, the tasks
\* of each stage, the stage list) has order values forming exactly 0..n-1.
C1_DenseOrders == ~state.currentList.null => DenseList(state.currentList)

\* C5: a same-scope reorder (reorderItem within one category, reorderTask,
\* reorderStage) with moved # target puts the moved entity immediately before
\* ('before') or after ('after') the target, whatever its prior index, keeps the
\* relative order of all other entities and leaves the scope numbered 0..n-1.
C5_SameScopePlacement ==
  /\ SameCategoryReorder =>
       PlacedBeside(ItemsOfCategory(PreList, OriginCategory),
                    ItemsOfCategory(PostList, OriginCategory),
                    lastOp.a, lastOp.b, lastOp.pos)
  /\ StageReorder =>
       PlacedBeside(PreList.stages, PostList.stages, lastOp.a, lastOp.b, lastOp.pos)
  /\ TaskReorder =>
       PlacedBeside(TasksOfStage(PreList, lastOp.c), TasksOfStage(PostList, lastOp.c),
                    lastOp.a, lastOp.b, lastOp.pos)

\* the moved item stood before the target and is dropped after it, in a scope of
\* at least three: the case where the insertion index is decremented
C5_Witness ==
  /\ SameCategoryReorder
  /\ lastOp.pos = "after"
  /\ Len(ItemsOfCategory(PreList, OriginCategory)) >= 3
  /\ ShownBefore(ItemsOfCategory(PreList, OriginCategory), lastOp.a, lastOp.b)
  /\ OrderIn(PostList.items, lastOp.a) = OrderIn(PostList.items, lastOp.b) + 1

\* C6: when reorderItem moves an item onto a target of another category and both
\* categories were dense beforehand, both are dense afterwards.
C6_CrossScopeDense ==
  (/\ CrossCategoryReorder
   /\ Dense(ItemsOfCategory(PreList, OriginCategory))
   /\ Dense(ItemsOfCategory(PreList, TargetCategory)))
  => /\ Dense(ItemsOfCategory(PostList, OriginCategory))
     /\ Dense(ItemsOfCategory(PostList, TargetCategory))

\* C7: with 3 items (orders 0,1,2) in the origin category and 2 items (orders 0,1)
\* in the target category, dropping any origin item before the target category's
\* first item leaves the origin with 2 items of orders 0,1 and the target
\* category with 3 items: the moved one at 0, the previous two at 1 and 2.
C7_Scenario ==
  (/\ CrossCategoryReorder
   /\ lastOp.pos = "before"
   /\ Len(ItemsOfCategory(PreList, OriginCategory)) = 3
   /\ Dense(ItemsOfCategory(PreList, OriginCategory))
   /\ Len(ItemsOfCategory(PreList, TargetCategory)) = 2
   /\ Dense(ItemsOfCategory(PreList, TargetCategory))
   /\ OrderIn(PreList.items, lastOp.b) = 0)
  => /\ Len(ItemsOfCategory(PostList, OriginCategory)) = 2
     /\ {OrderIn(PostList.items, i) : i \in Ids(ItemsOfCategory(PostList, OriginCategory))} = {0, 1}
     /\ Len(ItemsOfCategory(PostList, TargetCategory)) = 3
     /\ Find(PostList.items, lastOp.a).categoryId = TargetCategory
     /\ OrderIn(PostList.items, lastOp.a) = 0
     /\ \A i \in Ids(ItemsOfCategory(PreList, TargetCategory)) :
          OrderIn(PostList.items, i) = OrderIn(PreList.items, i) + 1

\* the insertion index of the last cross-category reorder
InsertionIndex ==
  LET dest == ItemsOfCategory(PreList, TargetCategory)
      before == Cardinality({i \in Ids(dest) : i # lastOp.b /\ ShownBefore(dest, i, lastOp.b)})
  IN IF lastOp.pos = "before" THEN before ELSE before + 1

\* the 0-based display index an item had in its category before the call
IndexIn(scope, id) == Cardinality({i \in Ids(scope) : i # id /\ ShownBefore(scope, i, id)})

\* C8: in a cross-category reorderItem on any document reachable by Actions the
\* moved item adopts the target's categoryId, every destination item at or after
\* the insertion index has its order incremented by exactly 1, the destination
\* items before it keep their order, the moved item takes the vacated index, no
\* two destination items share an order, and the moved item is displayed
\* immediately before ('before') or after ('after') the target.
C8_CrossScopeInsertion ==
  CrossCategoryReorder =>
    LET dest == ItemsOfCategory(PreList, TargetCategory)
        after == ItemsOfCategory(PostList, TargetCategory)
    IN /\ Find(PostList.items, lastOp.a).categoryId = TargetCategory
       /\ \A i \in Ids(dest) :
            OrderIn(after, i) = IF IndexIn(dest, i) >= InsertionIndex
                                THEN OrderIn(dest, i) + 1 ELSE OrderIn(dest, i)
       /\ OrderIn(after, lastOp.a) = InsertionIndex
       /\ \A i \in Ids(after), j \in Ids(after) : i # j => OrderIn(after, i) # OrderIn(after, j)
       /\ IF lastOp.pos = "before"
          THEN IndexIn(after, lastOp.a) + 1 = IndexIn(after, lastOp.b)
          ELSE IndexIn(after, lastOp.a) = IndexIn(after, lastOp.b) + 1

----------------------------------------------------------------------------
(* The store with the UI actions, the auto-hide timers and the keyboard *)

StoreItemIds == {1, 2}

Views == {"my-lists", "settings"}

NextStore ==
  \/ \E l \in LoadableLists : LoadList(l)
  \/ \E i \in StoreItemIds : ToggleItemPacked(i)
  \/ \E i \in StoreItemIds, q \in {"2", QNaN} : UpdateItemQuantity(i, q)
  \/ ClearCurrentList
  \/ \E v \in Views : NavigateTo(v)
  \/ ShowModal
  \/ HideModal
  \/ ShowToast
  \/ TimerFires
  \/ \E b \in BOOLEAN : SetLoading(b)
  \/ KeyCtrlZ
  \/ Undo
  \/ Tick

SpecStore == Init /\ [][NextStore]_vars

----------------------------------------------------------------------------
(* A long session: one list, a fixed rotation of mutations, undo at any point *)

LogRoom == Len(shadow) < MaxLog

HistLoad ==
  /\ shadow = <<>>
  /\ state.currentList.null
  /\ Commit(loadList(getState(store), ListB), Op("loadList", 0, 0, 0, "data"), "untracked", timers)

HistToggle ==
  /\ LogRoom
  /\ ~state.currentList.null
  /\ Len(shadow) % 3 = 1
  /\ Commit(toggleItemPacked(getState(store), 1),
            Op("toggleItemPacked", 1, 0, 0, ""), "untracked", timers)

HistNavigate ==
  /\ LogRoom
  /\ ~state.currentList.null
  /\ Len(shadow) % 3 = 2
  /\ Commit(navigateTo(getState(store),
                       IF state.ui.currentView = "my-lists" THEN "settings" ELSE "my-lists",
                       "null"),
            Op("navigateTo", 0, 0, 0, ""), "untracked", timers)

HistUpdateQuantity ==
  /\ LogRoom
  /\ ~state.currentList.null
  /\ Len(shadow) % 3 = 0
  /\ Commit(updateItem(getState(store), 1,
                       LAMBDA i : [i EXCEPT !.quantity = IF @ = "2" THEN QNaN ELSE "2"]),
            Op("updateItem", 1, 0, 0, ""), "untracked", timers)

NextHist ==
  \/ HistLoad
  \/ HistToggle
  \/ HistNavigate
  \/ HistUpdateQuantity
  \/ Undo

SpecHist == Init /\ [][NextHist]_vars

----------------------------------------------------------------------------
(* Bags, categories and references; reorder calls with any id; calls made *)
(* while no list is loaded or on a document that lacks an array            *)

BagIds == Ids(FieldOrEmpty(CurList, "bags"))

\* ids a reorder call can be made with: present ones and absent ones
AnyId == 1..MaxAnyId

\* MyListsView new-trip modal: setTrip(tripData)
SetTrip ==
  /\ Room
  /\ Commit(setTrip(getState(store), 1, 2), Op("setTrip", 0, 0, 0, ""), "untracked", timers)

AddBag ==
  LET id == FreshId(BagIds, MaxBags)
  IN /\ Room
     /\ Cardinality(BagIds) < MaxBags
     /\ Commit(addBag(getState(store), MkBag(id)), Op("addBag", id, 0, 0, ""), "untracked", timers)

RemoveBag(bagId) ==
  /\ Room
  /\ Commit(removeBag(getState(store), bagId), Op("removeBag", bagId, 0, 0, ""), "untracked", timers)

AddCategory ==
  LET id == FreshId(CategoryIds, MaxCategories)
  IN /\ Room
     /\ Cardinality(CategoryIds) < MaxCategories
     /\ Commit(addCategory(getState(store), MkCategory(id)),
               Op("addCategory", id, 0, 0, ""), "untracked", timers)

SetCategoryDefaultBag(categoryId, bagId) ==
  /\ Room
  /\ Commit(setCategoryDefaultBag(getState(store), categoryId, bagId),
            Op("setCategoryDefaultBag", categoryId, bagId, 0, ""), "untracked", timers)

RemoveCategory(categoryId) ==
  /\ Room
  /\ Commit(removeCategory(getState(store), categoryId),
            Op("removeCategory", categoryId, 0, 0, ""), "untracked", timers)

MoveItemToBag(itemId, bagId) ==
  /\ Room
  /\ Commit(moveItemToBag(getState(store), itemId, bagId),
            Op("moveItemToBag", itemId, bagId, 0, ""), "untracked", timers)

NextRefs ==
  \/ LoadList(ListC)
  \/ ClearCurrentList
  \/ SetTrip
  \/ AddBag
  \/ \E b \in BagIds : RemoveBag(b)
  \/ AddCategory
  \/ \E c \in CategoryIds, b \in BagIds : SetCategoryDefaultBag(c, b)
  \/ \E c \in CategoryIds : RemoveCategory(c)
  \/ \E c \in CategoryIds : AddItem(c)
  \/ \E i \in ItemIds, b \in BagIds : MoveItemToBag(i, b)
  \/ \E i \in ItemIds, c \in CategoryIds : MoveItemToCategory(i, c)
  \/ \E i \in ItemIds : RemoveItem(i)
  \/ \E i \in AnyId, j \in AnyId, p \in Positions : ReorderItem(i, j, p)
  \/ \E g \in AnyId, h \in AnyId, p \in Positions : ReorderStage(g, h, p)
  \/ \E g \in AnyId : \E t \in AnyId, u \in AnyId, p \in Positions : ReorderTask(g, t, u, p)
  \/ Undo

SpecRefs == Init /\ [][NextRefs]_vars

----------------------------------------------------------------------------
(* Reference and reorder-frame claims, checked under SpecRefs *)

\* C11: when the updater handed to setState raises, the store's state and its
\* undo history are what they were before the call: no history entry is added.
C11_AtomicOnThrow ==
  [][lastOp'.threw => (state' = state /\ history' = history)]_vars

\* the entities of a document: everything but meta
Entities(list) ==
  [null |-> list.null, has |-> list.has \ {"meta"}, trip |-> list.trip, bags |-> list.bags,
   categories |-> list.categories, items |-> list.items, stages |-> list.stages]

BagRefs(list, b) ==
  Cardinality({k \in DOMAIN list.categories : list.categories[k].defaultBagId = b})
  + Cardinality({k \in DOMAIN list.items : list.items[k].bagId = b})

NoDangling(list) ==
  LET bags == Ids(FieldOrEmpty(list, "bags"))
      categories == FieldOrEmpty(list, "categories")
      items == FieldOrEmpty(list, "items")
  IN /\ \A k \in DOMAIN categories :
          categories[k].defaultBagId = Null \/ categories[k].defaultBagId \in bags
     /\ \A k \in DOMAIN items :
          /\ items[k].bagId = Null \/ items[k].bagId \in bags
          /\ items[k].categoryId \in Ids(categories)

\* C14: after any sequence of Actions and undo() calls whose id arguments name
\* existing entities, every non-null defaultBagId and bagId is the id of a bag of
\* the document and every categoryId is the id of one of its categories.
C14_NoDanglingReferences == NoDangling(getState(store).currentList)

\* a bag that was referenced has been removed while references to another bag
\* and items of a remaining category are still there
C14_Witness ==
  /\ lastOp.name \in {"removeBag", "removeCategory"}
  /\ ~lastOp.threw
  /\ shadow # <<>>
  /\ Len(history) >= 2
  /\ ~CurList.null
  /\ \E k \in DOMAIN CurList.items : CurList.items[k].bagId # Null
  /\ Entities(PreList) # Entities(PostList)

\* the last call was a reorder naming an id that its scope does not hold
AbsentIdReorder ==
  /\ shadow # <<>>
  /\ \/ /\ lastOp.name = "reorderItem"
        /\ \/ ~Has(FieldOrEmpty(PreList, "items"), lastOp.a)
           \/ ~Has(FieldOrEmpty(PreList, "items"), lastOp.b)
     \/ /\ lastOp.name = "reorderStage"
        /\ \/ ~Has(FieldOrEmpty(PreList, "stages"), lastOp.a)
           \/ ~Has(FieldOrEmpty(PreList, "stages"), lastOp.b)
     \/ /\ lastOp.name = "reorderTask"
        /\ \/ ~Has(FieldOrEmpty(PreList, "stages"), lastOp.c)
           \/ ~Has(TasksOfStage(PreList, lastOp.c), lastOp.a)
           \/ ~Has(TasksOfStage(PreList, lastOp.c), lastOp.b)

\* C15: reorderItem, reorderTask and reorderStage called with a moved or target
\* id that the document (for tasks: the named stage) does not hold, or with an
\* unknown stage id, leave the document unchanged: no entity is added, removed
\* or re-parented and no order value changes.
C15_ReorderAbsentIdsNoOp ==
  AbsentIdReorder => Entities(PostList) = Entities(PreList)

\* reorderTask was called on a loaded list with a target task that only another
\* stage holds, and the updater returned
C15_Witness ==
  /\ Called("reorderTask")
  /\ Has(FieldOrEmpty(PreList, "stages"), lastOp.c)
  /\ Has(TasksOfStage(PreList, lastOp.c), lastOp.a)
  /\ ~Has(TasksOfStage(PreList, lastOp.c), lastOp.b)
  /\ \E k \in DOMAIN PreList.stages : Has(PreList.stages[k].tasks, lastOp.b)

\* C16: reorderItem(A, A, p), reorderTask(s, T, T, p) and reorderStage(S, S, p)
\* leave every order value of every entity unchanged, in every document
\* reachable by Actions.
C16_SelfTargetIdentity ==
  (/\ shadow # <<>>
   /\ lastOp.name \in {"reorderItem", "reorderTask", "reorderStage"}
   /\ lastOp.a = lastOp.b)
  => Entities(PostList) = Entities(PreList)

\* C20: in every reachable store state currentList is null or a complete
\* document carrying at least meta, bags, categories and items.
C20_AllOrNothingDocument ==
  getState(store).currentList.null
  \/ {"meta", "bags", "categories", "items"} \subseteq getState(store).currentList.has

----------------------------------------------------------------------------
(* Subscribers, and callers that write to the state objects they were given *)

RegisteredIn(ls, f) == \E k \in DOMAIN ls : ls[k] = f

Registered(f) == RegisteredIn(listeners, f)

Count(seq, f) == Cardinality({k \in DOMAIN seq : seq[k] = f})

\* store.subscribe(f): one more subscription of listener function f
Subscribe(f) ==
  /\ subs[f] < MaxSubs
  /\ listeners' = subscribe(listeners, f)
  /\ subs' = [subs EXCEPT ![f] = @ + 1]
  /\ invoked' = <<>>
  /\ lastOp' = OpRec("subscribe", f, 0, 0, "", FALSE, FALSE, FALSE)
  /\ UNCHANGED <<state, history, timers, now, shadow, zrun, urun, alias>>

\* the closure returned by one still active subscribe(f) call is called
Unsubscribe(f) ==
  /\ subs[f] > 0
  /\ listeners' = unsubscribe(listeners, f)
  /\ subs' = [subs EXCEPT ![f] = @ - 1]
  /\ invoked' = <<>>
  /\ lastOp' = OpRec("unsubscribe", f, 0, 0, "", FALSE, FALSE, FALSE)
  /\ UNCHANGED <<state, history, timers, now, shadow, zrun, urun, alias>>

ViewSources == {"getState", "updater", "subscriber"}

StateParts == {"ui", "categories", "items"}

\* A caller writes in place to a state object it holds: the value getState()
\* returned, the state the last updater was handed (kept after the call), or the
\* state the last notification handed to the listeners.  getState() and notify()
\* hand out fresh JSON copies; of the updater's state the store holds the parts
\* in `alias`.
MutateView(source, part) ==
  /\ source = "updater" => (lastOp.ret /\ ~lastOp.threw /\ lastOp.name \notin {"loadList", "clearCurrentList", "undo"})
  /\ source = "subscriber" => invoked # <<>>
  /\ part # "ui" => (~state.currentList.null /\ part \in state.currentList.has)
  /\ state' = IF source = "updater" /\ part \in alias THEN Scribble(state, part) ELSE state
  /\ alias' = {}
  /\ invoked' = <<>>
  /\ lastOp' = OpRec("mutate", 0, 0, 0, source, FALSE, FALSE, FALSE)
  /\ UNCHANGED <<history, timers, now, shadow, zrun, urun, listeners, subs>>

NextSubs ==
  \/ \E f \in ListenerFns : Subscribe(f)
  \/ \E f \in ListenerFns : Unsubscribe(f)
  \/ LoadList(ListC)
  \/ \E i \in {1} : ToggleItemPacked(i)
  \/ \E i \in {1}, j \in {2, 4} : ReorderItem(i, j, "after")
  \/ \E v \in {"settings"} : NavigateTo(v)
  \/ Undo
  \/ \E source \in ViewSources, part \in StateParts : MutateView(source, part)

SpecSubs == Init /\ [][NextSubs]_vars

\* C17: writing to a value returned by getState(), to the state object handed
\* to a setState updater or to the state object handed to a subscriber never
\* changes the store's current state nor a snapshot of the undo history.
C17_CopyOnReadIsolation ==
  [][lastOp'.name = "mutate" => (state' = state /\ history' = history)]_vars

\* C18: when a subscriber raises while being notified, every other registered
\* subscriber is still notified of the same update, the call itself does not
\* raise, and the state change stays committed with its history entry.
C18_SubscriberErrorIsolation ==
  /\ []((lastOp.notified /\ \E f \in ListenerFns : Throws(f) /\ Registered(f)) =>
          /\ ~lastOp.threw
          /\ \A f \in ListenerFns : Registered(f) => Count(invoked, f) = 1)
  /\ [][(lastOp'.notified /\ lastOp'.name = "toggleItemPacked"
          /\ Has(state.currentList.items, lastOp'.a)
          /\ \E f \in ListenerFns : Throws(f) /\ Registered(f)) =>
          /\ history' = Append(history, getState(store))
          /\ Find(state'.currentList.items, lastOp'.a).packed
               # Find(state.currentList.items, lastOp'.a).packed]_vars

\* the listener that raises was registered first and a later one was still called
C18_Witness ==
  /\ lastOp.name = "toggleItemPacked" /\ lastOp.notified
  /\ Len(listeners) >= 2
  /\ Throws(listeners[1])
  /\ invoked = listeners

\* C19 as the spec words it, per subscription: a listener with an active
\* subscription is called exactly once for every setState call that returns, a
\* listener without one is never called, and calling the unsubscribe closure of
\* one subscription deregisters no other active subscription.
C19_SubscriptionLifecycle ==
  /\ [](lastOp.notified =>
          \A f \in ListenerFns : Count(invoked, f) = IF subs[f] > 0 THEN 1 ELSE 0)
  /\ [][lastOp'.name = "unsubscribe" =>
          \A f \in ListenerFns : subs'[f] > 0 => Registered(f)']_vars

\* C19, amended, per listener function: a registered function is called exactly
\* once for every setState call that returns (and for every successful undo),
\* a function that is not registered is never called, a call whose updater
\* raised notifies nobody; subscribe registers the function if it is not yet
\* registered, and an unsubscribe closure deregisters exactly its function, so
\* every other function stays registered.
C19_ListenerLifecycle ==
  /\ [](lastOp.notified =>
          \A f \in ListenerFns : Count(invoked, f) = IF Registered(f) THEN 1 ELSE 0)
  /\ [](lastOp.threw => invoked = <<>>)
  /\ [][lastOp'.name = "subscribe" =>
          /\ RegisteredIn(listeners', lastOp'.a)
          /\ \A g \in ListenerFns \ {lastOp'.a} : Registered(g)' = Registered(g)]_vars
  /\ [][lastOp'.name = "unsubscribe" =>
          /\ ~RegisteredIn(listeners', lastOp'.a)
          /\ \A g \in ListenerFns \ {lastOp'.a} : Registered(g)' = Registered(g)]_vars

\* a function subscribed twice lost its registration with the first unsubscribe
\* while another listener stayed registered and was the only one called
C19_Witness ==
  /\ lastOp.notified
  /\ \E f \in ListenerFns : subs[f] = 1 /\ ~Registered(f)
  /\ Len(invoked) = 1
  /\ invoked = listeners

----------------------------------------------------------------------------
(* Undo claims *)

UndoSucceeded == lastOp'.name = "undo" /\ lastOp'.ret

\* C2: after n setState calls (n <= 50), each of k <= n consecutive undo() calls
\* returns true, and the k-th leaves currentList, as getState() shows it and
\* modifiedAt included, equal to the document observed right before the
\* (n-k+1)-th call: every successful undo() restores the newest entry of the log
\* of not yet undone calls.  Checked under SpecStore.
C2_LinearUndo ==
  /\ []((urun.m <= maxHistory /\ urun.u < urun.m) => history # <<>>)
  /\ [][UndoSucceeded =>
          /\ shadow # <<>>
          /\ JsonClone(state').currentList = Last(shadow).currentList
          /\ shadow' = Front(shadow)]_vars

\* the second of two consecutive undo() calls brought back a list whose
\* modifiedAt is older than the clock
C2_Witness ==
  /\ lastOp.name = "undo" /\ lastOp.ret
  /\ urun.u = 2
  /\ ~state.currentList.null
  /\ state.currentList.meta.modifiedAt < now

\* C3: after n document-mutating Actions, n successive Ctrl+Z presses (timers
\* firing in between or not) leave currentList equal to the document as it was
\* before the first of those Actions.  Checked under SpecStore.
C3_CtrlZRevertsActions ==
  (zrun.active /\ zrun.n >= 1 /\ zrun.z = zrun.n) => getState(store).currentList = zrun.base

\* C4: a successful undo() leaves the ui fields (currentView, currentSubview,
\* modal, toast, isLoading) as they were right before the call.  Checked under
\* SpecStore.
C4_UndoKeepsUi ==
  [][UndoSucceeded => JsonClone(state').ui = JsonClone(state).ui]_vars

\* every history entry is the state observed before the matching not yet undone call
HistoryMirrorsLog ==
  /\ Len(history) <= Len(shadow)
  /\ \A k \in 1..Len(history) :
       history[Len(history) + 1 - k] = shadow[Len(shadow) + 1 - k]

\* C9: the history never holds more than 50 entries; a setState at 50 entries
\* evicts the oldest and keeps the 49 newest plus the new one; after m > 50
\* consecutive mutations exactly 50 consecutive undo() calls succeed, each
\* restoring the state observed before the matching mutation, and the 51st
\* finds the history empty.  Checked under SpecHist.
C9_BoundedHistory ==
  /\ [](Len(history) <= maxHistory)
  /\ []HistoryMirrorsLog
  /\ [](urun.m > maxHistory => Len(history) = maxHistory - urun.u)
  /\ [][(Len(history) = maxHistory /\ Len(shadow') = Len(shadow) + 1) =>
          history' = Append(Tail(history), JsonClone(state))]_vars
  /\ [][UndoSucceeded => JsonClone(state') = Last(shadow)]_vars

\* more than 50 mutations in a row, then 50 successful undo() calls, then one
\* that returned false
C9_Witness ==
  /\ urun.m > maxHistory
  /\ urun.u = maxHistory
  /\ lastOp.name = "undo" /\ ~lastOp.ret
  /\ history = <<>>

\* C10: undo() with an empty history returns false, leaves the state and the
\* history as they are and notifies no subscriber.  Checked under SpecHist.
C10_UndoOnEmptyHistory ==
  [][(lastOp'.name = "undo" /\ history = <<>>) =>
       /\ ~lastOp'.ret
       /\ ~lastOp'.notified
       /\ state' = state
       /\ history' = <<>>]_vars

\* undo() returned false on a store that holds a list: its older states were evicted
C10_Witness ==
  /\ lastOp.name = "undo" /\ ~lastOp.ret
  /\ history = <<>>
  /\ ~state.currentList.null
  /\ state # getInitialState

----------------------------------------------------------------------------
(* Quantity expressions: ExpressionParser of src/unnamed/part_001.          *)

MaxLen == 3
MaxCoreLen == 4

\* Math.max(1, Math.round(result)): rounding changes none of these values
MaxOneRound(x) ==
  CASE x.kind = "nan" -> NaN
    [] x.kind = "inf" -> IF x.neg THEN Fin(1) ELSE x
    [] OTHER -> IF ToInt(x) >= 1 THEN x ELSE Fin(1)

\* the characters an expression is written with: digits, the day variable in
\* both cases, the operators, parentheses, a blank and a foreign character
Digits == {"0", "1", "2"}

Operators == {"+", "-", "*", "/"}

Chars == Digits \cup Operators \cup {"d", "D", "(", ")", " ", "x"}

CoreChars == {"d", "2", "+", "-", "*", "/"}

DigitValue(c) == CASE c = "0" -> 0 [] c = "1" -> 1 [] c = "2" -> 2

toLowerCase(c) == IF c = "D" THEN "d" ELSE c

IsDigits(s) == \A k \in DOMAIN s : s[k] \in Digits

\* the longest prefix of digits
DigitPrefix(s) ==
  LET stop == {k \in DOMAIN s : s[k] \notin Digits}
  IN IF stop = {} THEN s ELSE SubSeq(s, 1, (CHOOSE k \in stop : \A j \in stop : k <= j) - 1)

RECURSIVE Decimal(_)
Decimal(digits) ==
  IF digits = <<>> THEN 0 ELSE 10 * Decimal(Front(digits)) + DigitValue(Last(digits))

\* parseInt(s, 10) of a string without blanks: an optional sign, then digits
parseInt(s) ==
  LET signed == s # <<>> /\ s[1] \in {"+", "-"}
      digits == DigitPrefix(IF signed THEN Tail(s) ELSE s)
  IN IF digits = <<>> THEN NaN
     ELSE IF signed /\ s[1] = "-"
          THEN [kind |-> "fin", neg |-> TRUE, mag |-> Decimal(digits)]
          ELSE Fin(Decimal(digits))

\* expr.trim()
RECURSIVE trim(_)
trim(s) ==
  IF s = <<>> THEN s
  ELSE IF s[1] = " " THEN trim(Tail(s))
  ELSE IF Last(s) = " " THEN trim(Front(s))
  ELSE s

\* expr.replace(/\s+/g, '').toLowerCase()
Normalized(s) == Map(SelectSeq(s, LAMBDA c : c # " "), toLowerCase)

\* normalized.match(tokenRegex) from position i on: at each position the
\* alternatives \d+d, \d+, d and one operator or parenthesis are tried in this
\* order, and a character none of them matches is passed over
RECURSIVE Match(_, _)
Match(s, i) ==
  IF i > Len(s) THEN <<>>
  ELSE LET run == DigitPrefix(SubSeq(s, i, Len(s)))
           j == i + Len(run)
       IN IF run # <<>> /\ j <= Len(s) /\ s[j] = "d"
          THEN <<run \o <<"d">>>> \o Match(s, j + 1)
          ELSE IF run # <<>> THEN <<run>> \o Match(s, j)
          ELSE IF s[i] \in Operators \cup {"d", "(", ")"}
               THEN <<<<s[i]>>>> \o Match(s, i + 1)
               ELSE Match(s, i + 1)

RECURSIVE Join(_)
Join(tokens) == IF tokens = <<>> THEN <<>> ELSE tokens[1] \o Join(Tail(tokens))

\* tokenize(expr): the tokens, or the error 'Invalid expression'
tokenize(expr) ==
  LET normalized == Normalized(expr)
      tokens == Match(normalized, 1)
  IN IF tokens = <<>> \/ Join(tokens) # normalized
     THEN [threw |-> TRUE, tokens |-> <<>>]
     ELSE [threw |-> FALSE, tokens |-> tokens]

\* what a parsing function hands back: the value and the position reached
\* (positions count from 1 here and from 0 in the code), or the error raised
Parsed(val, pos) == [threw |-> FALSE, val |-> val, pos |-> pos]

ParseError(pos) == [threw |-> TRUE, val |-> NaN, pos |-> pos]

RECURSIVE parseExpression(_, _, _)
RECURSIVE parseExpressionLoop(_, _, _, _)
RECURSIVE parseTerm(_, _, _)
RECURSIVE parseTermLoop(_, _, _, _)
RECURSIVE parseFactor(_, _, _)

\* part_001 lines 82-106; a token past the end is undefined, and
\* undefined.endsWith raises a TypeError
parseFactor(tokens, pos, days) ==
  IF pos > Len(tokens) THEN ParseError(pos + 1)
  ELSE LET token == tokens[pos]
       IN IF token = <<"(">>
          THEN LET result == parseExpression(tokens, pos + 1, days)
               IN IF result.threw THEN result
                  ELSE IF result.pos > Len(tokens) \/ tokens[result.pos] # <<")">>
                       THEN ParseError(result.pos)
                       ELSE Parsed(result.val, result.pos + 1)
          ELSE IF token = <<"d">> THEN Parsed(days, pos + 1)
          ELSE IF Last(token) = "d"
               THEN Parsed(Times(parseInt(Front(token)), days), pos + 1)
               ELSE Parsed(parseInt(token), pos + 1)

\* the while loop of parseTerm, part_001 lines 73-77
parseTermLoop(tokens, left, pos, days) ==
  IF pos <= Len(tokens) /\ tokens[pos] \in {<<"*">>, <<"/">>}
  THEN LET right == parseFactor(tokens, pos + 1, days)
       IN IF right.threw THEN right
          ELSE parseTermLoop(tokens,
                             IF tokens[pos] = <<"*">> THEN Times(left, right.val)
                             ELSE CeilDivide(left, right.val),
                             right.pos, days)
  ELSE Parsed(left, pos)

parseTerm(tokens, pos, days) ==
  LET left == parseFactor(tokens, pos, days)
  IN IF left.threw THEN left ELSE parseTermLoop(tokens, left.val, left.pos, days)

\* the while loop of parseExpression, part_001 lines 61-65
parseExpressionLoop(tokens, left, pos, days) ==
  IF pos <= Len(tokens) /\ tokens[pos] \in {<<"+">>, <<"-">>}
  THEN LET right == parseTerm(tokens, pos + 1, days)
       IN IF right.threw THEN right
          ELSE parseExpressionLoop(tokens,
                                   IF tokens[pos] = <<"+">> THEN Plus(left, right.val)
                                   ELSE Minus(left, right.val),
                                   right.pos, days)
  ELSE Parsed(left, pos)

parseExpression(tokens, pos, days) ==
  LET left == parseTerm(tokens, pos, days)
  IN IF left.threw THEN left ELSE parseExpressionLoop(tokens, left.val, left.pos, days)

\* an expression handed to the parser: a string, or null/undefined
Str(text) == [isString |-> TRUE, text |-> text]

NoExpr == [isString |-> FALSE, text |-> <<>>]

Returned(val) == [threw |-> FALSE, val |-> val]

Raised == [threw |-> TRUE, val |-> NaN]

\* evaluate(expr, days), part_001 lines 43-116
evaluate(expr, days) ==
  IF ~expr.isString \/ expr.text = <<>> THEN Returned(Fin(1))
  ELSE LET trimmed == trim(expr.text)
       IN IF trimmed # <<>> /\ IsDigits(trimmed) THEN Returned(parseInt(trimmed))
          ELSE LET lexed == tokenize(trimmed)
               IN IF lexed.threw THEN Raised
                  ELSE LET result == parseExpression(lexed.tokens, 1, days)
                       IN IF result.threw THEN Raised
                          ELSE IF result.pos # Len(lexed.tokens) + 1 THEN Raised
                          ELSE Returned(MaxOneRound(result.val))

\* validate without its try/catch
validateNoCatch(expr) ==
  LET tried == evaluate(expr, Fin(1))
  IN [threw |-> tried.threw, valid |-> TRUE, error |-> FALSE]

\* validate(expr), part_001 lines 123-130: evaluation with the day count 1
validate(expr) ==
  LET tried == evaluate(expr, Fin(1))
  IN [threw |-> FALSE, valid |-> ~tried.threw, error |-> tried.threw]

\* x || 1
OrOne(x) ==
  IF x.kind = "inf" \/ (x.kind = "fin" /\ x.mag # 0) THEN x ELSE Fin(1)

\* getItemQuantity(item, days), actions.js lines 678-693
getItemQuantity(item, days) ==
  CASE item.quantityType = "single" -> Returned(Fin(1))
    [] item.quantityType = "fixed" -> Returned(OrOne(item.quantity))
    [] item.quantityType = "dependent" ->
         LET tried == evaluate(item.quantityExpression, days)
         IN IF tried.threw THEN Returned(Fin(1)) ELSE tried
    [] OTHER -> Returned(Fin(1))

----------------------------------------------------------------------------
(* The specification of the expression functions: an input is drawn, then   *)
(* one of evaluate, validate and getItemQuantity is applied to it.          *)

Text(n, chars) == [1..n -> chars]

Examples ==
  { <<"2", "d", "+", "1">>,
    <<"(", "d", "+", "1", ")", "/", "2">>,
    <<"2", "+", "d", "*", "2">>,
    <<"d", "-", "1", "-", "1">>,
    <<"(", "d", "+", "1">>,
    <<"d", "+", "1", ")">>,
    <<"d", "+", "1", "+">>,
    <<"1", "/", "(", "(", "0", "-", "1", ")", "/", "2", ")">>,
    <<"d", "/", "(", "0", "*", "(", "0", "-", "1", ")", ")">> }

Texts ==
  UNION {Text(n, Chars) : n \in 0..MaxLen}
    \cup UNION {Text(n, CoreChars) : n \in 0..MaxCoreLen}
    \cup Examples

Exprs == {NoExpr} \cup {Str(t) : t \in Texts}

Days == {1, 2, 5}

QuantityTypes == {"single", "fixed", "dependent", "unknown"}

Quantities == {Undefined, NaN, Fin(0), Fin(3), Fin(0 - 2)}

ItemOf(quantityType, quantity, expr) ==
  [quantityType |-> quantityType, quantity |-> quantity, quantityExpression |-> expr]

\* the inputs: every expression as the expression of a dependent item, and
\* every other kind of item without an expression
InitExpr ==
  /\ state = getInitialState
  /\ history = <<>>
  /\ timers = 0
  /\ now = 0
  /\ shadow = <<>>
  /\ zrun = ZIdle
  /\ urun = [m |-> 0, u |-> 0]
  /\ listeners = <<>>
  /\ subs = [f \in ListenerFns |-> 0]
  /\ invoked = <<>>
  /\ alias = {}
  /\ \E expr \in Exprs, days \in Days, quantityType \in QuantityTypes, quantity \in Quantities :
       /\ \/ quantityType = "dependent" /\ quantity = Undefined
          \/ quantityType # "dependent" /\ expr = NoExpr
       /\ lastOp = OpRec("input", expr, Fin(days), ItemOf(quantityType, quantity, expr),
                         "", FALSE, FALSE, FALSE)

Apply(name, ret) ==
  /\ lastOp.name = "input"
  /\ lastOp' = [lastOp EXCEPT !.name = name, !.ret = ret]
  /\ UNCHANGED <<state, history, timers, now, shadow, zrun, urun, listeners, subs,
                 invoked, alias>>

Evaluate == Apply("evaluate", evaluate(lastOp.a, lastOp.b))

Validate == Apply("validate", validate(lastOp.a))

GetItemQuantity == Apply("getItemQuantity", getItemQuantity(lastOp.c, lastOp.b))

NextExpr == Evaluate \/ Validate \/ GetItemQuantity

SpecExpr == InitExpr /\ [][NextExpr]_vars

----------------------------------------------------------------------------
(* The value the grammar gives an expression, read off the token sequence   *)
(* without the parser: an expression is a term, or an expression, + or -    *)
(* and a term; a term is a factor, or a term, a times or division sign and  *)
(* a factor; a factor is a number, d, a number followed by d, or an         *)
(* expression in parentheses.                                               *)

Depth(ts, k) ==
  Cardinality({j \in 1..(k - 1) : ts[j] = <<"(">>})
    - Cardinality({j \in 1..(k - 1) : ts[j] = <<")">>})

TopLevel(ts, ops) == {k \in DOMAIN ts : ts[k] \in ops /\ Depth(ts, k) = 0}

Greatest(S) == CHOOSE k \in S : \A j \in S : j <= k

IllFormed == [wf |-> FALSE, def |-> FALSE, v |-> 0]

Meaning(v) == [wf |-> TRUE, def |-> TRUE, v |-> v]

\* a / b rounded up, for b # 0
CeilingOf(a, b) ==
  LET n == IF b < 0 THEN 0 - a ELSE a
      m == IF b < 0 THEN 0 - b ELSE b
  IN IF n >= 0 THEN (n + m - 1) \div m ELSE 0 - ((0 - n) \div m)

Combine(op, l, r) ==
  IF ~l.wf \/ ~r.wf THEN IllFormed
  ELSE IF ~l.def \/ ~r.def \/ (op = <<"/">> /\ r.v = 0)
       THEN [wf |-> TRUE, def |-> FALSE, v |-> 0]
       ELSE Meaning(CASE op = <<"+">> -> l.v + r.v
                      [] op = <<"-">> -> l.v - r.v
                      [] op = <<"*">> -> l.v * r.v
                      [] op = <<"/">> -> CeilingOf(l.v, r.v))

RECURSIVE ExpressionValue(_, _)
RECURSIVE TermValue(_, _)
RECURSIVE FactorValue(_, _)

FactorValue(ts, days) ==
  IF Len(ts) = 1
  THEN (IF ts[1] = <<"d">> THEN Meaning(days)
        ELSE IF IsDigits(ts[1]) THEN Meaning(Decimal(ts[1]))
        ELSE IF Last(ts[1]) = "d" THEN Meaning(Decimal(Front(ts[1])) * days)
        ELSE IllFormed)
  ELSE IF Len(ts) >= 3 /\ ts[1] = <<"(">> /\ Last(ts) = <<")">>
       THEN ExpressionValue(SubSeq(ts, 2, Len(ts) - 1), days)
       ELSE IllFormed

TermValue(ts, days) ==
  LET at == TopLevel(ts, {<<"*">>, <<"/">>})
  IN IF at = {} THEN FactorValue(ts, days)
     ELSE LET k == Greatest(at)
          IN Combine(ts[k], TermValue(SubSeq(ts, 1, k - 1), days),
                     FactorValue(SubSeq(ts, k + 1, Len(ts)), days))

ExpressionValue(ts, days) ==
  IF ts = <<>> THEN IllFormed
  ELSE LET at == TopLevel(ts, {<<"+">>, <<"-">>})
       IN IF at = {} THEN TermValue(ts, days)
          ELSE LET k == Greatest(at)
               IN Combine(ts[k], ExpressionValue(SubSeq(ts, 1, k - 1), days),
                          TermValue(SubSeq(ts, k + 1, Len(ts)), days))

\* the value of a text, if it is written with the characters of the token
\* set and its tokens are a sentence of the grammar
GrammarValue(text, days) ==
  LET lexed == tokenize(text)
  IN IF lexed.threw THEN IllFormed ELSE ExpressionValue(lexed.tokens, days)

Evaluated == lastOp.name = "evaluate"

IsNumeric(text) == trim(text) # <<>> /\ IsDigits(trim(text))

IsQuantity(x) == x.kind = "fin" /\ ~x.neg /\ x.mag >= 1

\* C23 - Evaluator semantics: for every well-formed expression of the grammar
\* and every days >= 1, evaluate returns the value the grammar defines
\* (times and division before plus and minus, left to right, Nd = N times
\* days, division rounded up),
\* raised to 1 if it is smaller.
C23_EvaluatorSemantics ==
  Evaluated /\ lastOp.a.isString
    => LET meaning == GrammarValue(lastOp.a.text, ToInt(lastOp.b))
       IN meaning.wf /\ meaning.def
            => /\ ~lastOp.ret.threw
               /\ lastOp.ret.val = Fin(IF meaning.v >= 1 THEN meaning.v ELSE 1)

\* C24 - Parse errors: for every non-empty, non-numeric expression string
\* that is no sentence of the grammar, evaluate fails with an error and
\* returns no value.
C24_ParseErrors ==
  /\ Evaluated
  /\ lastOp.a.isString
  /\ lastOp.a.text # <<>>
  /\ ~IsNumeric(lastOp.a.text)
  /\ ~GrammarValue(lastOp.a.text, ToInt(lastOp.b)).wf
  => lastOp.ret.threw

\* C25 - Quantity range: whenever evaluate returns, the result is a finite
\* integer that is at least 1.
C25_QuantityRange == Evaluated /\ ~lastOp.ret.threw => IsQuantity(lastOp.ret.val)

\* C26 - Rendered quantity fallback: getItemQuantity never throws and yields
\* an integer >= 1: 1 for 'single' or an unknown type, the stored quantity
\* for 'fixed' (1 when absent), the evaluated expression for 'dependent' and
\* 1 when the expression is malformed.
C26_RenderedQuantity ==
  lastOp.name = "getItemQuantity"
    => LET item == lastOp.c
           tried == evaluate(item.quantityExpression, lastOp.b)
       IN /\ ~lastOp.ret.threw
          /\ IsQuantity(lastOp.ret.val)
          /\ item.quantityType \in {"single", "unknown"} => lastOp.ret.val = Fin(1)
          /\ item.quantityType = "fixed"
               => lastOp.ret.val = (IF item.quantity = Undefined THEN Fin(1) ELSE item.quantity)
          /\ item.quantityType = "dependent"
               => lastOp.ret.val = (IF tried.threw THEN Fin(1) ELSE tried.val)

----------------------------------------------------------------------------
(* The specification of the trip details: a list is loaded, then the trip   *)
(* is set and its fields are edited (MyListsView.bindTripEvents, part_003   *)
(* lines 874-890, hands the value of the input over as it is).              *)

Dates == 1..MaxDay

TripFields == {"name", "departureDate", "returnDate", "calculatedDays"}

TripValues(field) ==
  CASE field = "name" -> {1, 2}
    [] field \in {"departureDate", "returnDate"} -> {NoDate} \cup Dates
    [] field = "calculatedDays" -> {1, 2}

SetTripDates(departure, returnDate) ==
  /\ Room
  /\ Commit(setTrip(getState(store), departure, returnDate),
            Op("setTrip", departure, returnDate, 0, ""), "untracked", timers)

UpdateTripField(field, value) ==
  /\ Room
  /\ Commit(updateTripField(getState(store), field, value),
            Op("updateTripField", field, value, 0, ""), "untracked", timers)

NextTrip ==
  \/ LoadEmptyList
  \/ \E departure \in Dates, returnDate \in Dates : SetTripDates(departure, returnDate)
  \/ \E field \in TripFields : \E value \in TripValues(field) : UpdateTripField(field, value)
  \/ Undo

SpecTrip == Init /\ [][NextTrip]_vars

Trip == state.currentList.trip

HasTrip == ~state.currentList.null /\ "trip" \in state.currentList.has

\* the calendar days from departure to return, both counted
CalendarDays(departure, returnDate) ==
  (IF returnDate >= departure THEN returnDate - departure ELSE departure - returnDate) + 1

\* C28 - Trip-length invariant: after any sequence of setTrip and
\* updateTripField calls trip.calculatedDays is the number of calendar days
\* from departureDate to returnDate, both counted, and at least 1; a call that
\* changes a date recomputes it and updateTripField on another field leaves
\* it as it was.
C28_TripLength ==
  /\ [](HasTrip
          => /\ Trip.calculatedDays.kind = "fin"
             /\ ToInt(Trip.calculatedDays) >= 1
             /\ Trip.departureDate # NoDate /\ Trip.returnDate # NoDate
                  => Trip.calculatedDays = Fin(CalendarDays(Trip.departureDate, Trip.returnDate)))
  /\ [][lastOp'.name = "updateTripField" /\ ~lastOp'.threw
          /\ lastOp'.a \notin {"departureDate", "returnDate"}
          => Trip'.calculatedDays = Trip.calculatedDays]_vars

----------------------------------------------------------------------------
(* The specification of the three reorder Actions side by side: a sequence  *)
(* of entities, a moved one, a target and a position are drawn, and the     *)
(* sequence is handed to reorderItem as the items of one category, to       *)
(* reorderStage as the stages and to reorderTask as the tasks of one stage. *)

MaxSeq == 3

Orders == {NoOrder} \cup 0..(MaxSeq - 1)

\* the sequences of up to MaxSeq entities with distinct ids
Entries ==
  UNION {UNION {Arrangements([k \in 1..n |-> [id |-> k, order |-> orders[k]]]) :
                  orders \in [1..n -> Orders]} : n \in 1..MaxSeq}

AsItems(entries) == [k \in DOMAIN entries |-> MkItem(entries[k].id, 1, entries[k].order)]

AsStages(entries) == [k \in DOMAIN entries |-> MkStage(entries[k].id, entries[k].order, <<>>)]

AsTasks(entries) == [k \in DOMAIN entries |-> MkTask(entries[k].id, entries[k].order)]

Holding(list) == [getInitialState EXCEPT !.currentList = list]

\* what a reorder leaves: the order value of every entity, and the entities
\* in ascending order
Outcome(scope) ==
  [orders |-> {<<scope[k].id, scope[k].order>> : k \in DOMAIN scope},
   shown |-> [k \in DOMAIN scope |-> SortByOrder(scope)[k].id]]

InitReorder ==
  /\ state = getInitialState
  /\ history = <<>>
  /\ timers = 0
  /\ now = 0
  /\ shadow = <<>>
  /\ zrun = ZIdle
  /\ urun = [m |-> 0, u |-> 0]
  /\ listeners = <<>>
  /\ subs = [f \in ListenerFns |-> 0]
  /\ invoked = <<>>
  /\ alias = {}
  /\ \E entries \in Entries, moved \in 1..MaxSeq, target \in 1..MaxSeq,
        position \in {"before", "after"} :
       lastOp = OpRec("input", moved, target, entries, position, FALSE, FALSE, FALSE)

ReorderThrice ==
  LET moved == lastOp.a
      target == lastOp.b
      entries == lastOp.c
      asItems == Holding(MkList(<<MkCategory(1)>>, AsItems(entries), <<>>))
      asStages == Holding(MkList(<<>>, <<>>, AsStages(entries)))
      asTasks == Holding(MkList(<<>>, <<>>, <<MkStage(1, 0, AsTasks(entries))>>))
  IN /\ lastOp.name = "input"
     /\ \E sorted \in StageSorts(asStages) :
          lastOp' =
            [lastOp EXCEPT
               !.name = "reorder",
               !.ret =
                 [item |-> Outcome(reorderItem(asItems, moved, target, lastOp.pos)
                                     .val.currentList.items),
                  stage |-> Outcome(reorderStage(asStages, moved, target, lastOp.pos, sorted)
                                      .val.currentList.stages),
                  task |-> Outcome(reorderTask(asTasks, 1, moved, target, lastOp.pos)
                                     .val.currentList.stages[1].tasks)]]
     /\ UNCHANGED <<state, history, timers, now, shadow, zrun, urun, listeners, subs,
                    invoked, alias>>

NextReorder == ReorderThrice

SpecReorder == InitReorder /\ [][NextReorder]_vars

\* C30 - One reorder algorithm: given the same sequence, the same moved
\* element, the same target and the same position, reorderItem (within one
\* category), reorderTask and reorderStage leave the same sequence and the
\* same order values.
C30_OneReorderAlgorithm ==
  lastOp.name = "reorder"
    => lastOp.ret.item = lastOp.ret.task /\ lastOp.ret.task = lastOp.ret.stage

\* the three agree on sequences whose entities all carry an order value
AgreeWhenOrdered ==
  lastOp.name = "reorder" /\ (\A k \in DOMAIN lastOp.c : lastOp.c[k].order # NoOrder)
    => lastOp.ret.item = lastOp.ret.task /\ lastOp.ret.task = lastOp.ret.stage

----------------------------------------------------------------------------
(* Files: validatePackingList (js/utils/uuid.js), FileService.importList     *)
(* (part_003), TemplateService.createFromTemplate (part_002) and the click   *)
(* handlers that call them.                                                  *)

\* What JSON.parse makes of the chosen file. list holds the properties that
\* are there (list.has names them); scalars are the properties whose value is
\* truthy but no array; holed are the arrays that hold a null entry;
\* isTemplate is data.meta?.isTemplate. An entity's property that is absent or
\* empty is 0 for an id and "" for a text.
FileData(filename, list) ==
  [filename |-> filename, parsed |-> TRUE, object |-> TRUE, list |-> list, scalars |-> {},
   holed |-> {}, isTemplate |-> FALSE]

\* data[field] is truthy
Truthy(data, field) == field \in data.list.has \/ field \in data.scalars

RECURSIVE Flatten(_)
Flatten(seqs) == IF seqs = <<>> THEN <<>> ELSE seqs[1] \o Flatten(Tail(seqs))

\* errors.join(', ')
RECURSIVE JoinErrors(_)
JoinErrors(errors) ==
  IF errors = <<>> THEN ""
  ELSE IF Len(errors) = 1 THEN errors[1]
  ELSE errors[1] \o ", " \o JoinErrors(Tail(errors))

If(test, error) == IF test THEN <<error>> ELSE <<>>

RequiredFields == <<"meta", "bags", "categories", "items">>

\* uuid.js lines 108-113, for the item at index k - 1
ItemErrors(item, k) ==
  LET at == "Item " \o ToString(k - 1) \o ": missing "
  IN If(item.id = Null, at \o "id") \o If(item.name = "", at \o "name")
       \o If(item.categoryId = Null, at \o "categoryId")
       \o If(item.quantityType = "", at \o "quantityType")

\* uuid.js lines 118-121, for the bag at index k - 1
BagErrors(bag, k) ==
  LET at == "Bag " \o ToString(k - 1) \o ": missing "
  IN If(bag.id = Null, at \o "id") \o If(bag.name = "", at \o "name")

Verdict(errors) == [threw |-> FALSE, valid |-> errors = <<>>, errors |-> errors]

\* validatePackingList(data), uuid.js lines 76-125: only the check of the
\* required fields returns early; item.id of a null entry raises a TypeError
validatePackingList(data) ==
  IF ~data.object THEN Verdict(<<"Data must be an object">>)
  ELSE LET missing == Flatten([k \in 1..4 |->
                        If(~Truthy(data, RequiredFields[k]),
                           "Missing required field: " \o RequiredFields[k])])
           notArrays == If("bags" \in data.scalars, "Bags must be an array")
                          \o If("categories" \in data.scalars, "Categories must be an array")
                          \o If("items" \in data.scalars, "Items must be an array")
           items == IF "items" \in data.scalars THEN <<>> ELSE data.list.items
           bags == IF "bags" \in data.scalars THEN <<>> ELSE data.list.bags
       IN IF missing # <<>> THEN Verdict(missing)
          ELSE IF data.holed # {} THEN [threw |-> TRUE, valid |-> FALSE, errors |-> <<>>]
          ELSE Verdict(notArrays
                         \o Flatten([k \in DOMAIN items |-> ItemErrors(items[k], k)])
                         \o Flatten([k \in DOMAIN bags |-> BagErrors(bags[k], k)]))

\* a chosen file, or the file dialog closed without one
File(data) == [chosen |-> TRUE, data |-> data]

NoFile == [chosen |-> FALSE, data |-> FileData("", NullList)]

Failure(error) ==
  [success |-> FALSE, cancelled |-> FALSE, error |-> error, data |-> FileData("", NullList)]

\* FileService.importList(), part_003 lines 71-112
importList(file) ==
  IF ~file.chosen THEN [Failure("") EXCEPT !.cancelled = TRUE]
  ELSE IF ~file.data.parsed THEN Failure("Invalid JSON file")
  ELSE LET validation == validatePackingList(file.data)
       IN IF validation.threw THEN Failure("Invalid JSON file")
          ELSE IF ~validation.valid
               THEN Failure("Invalid file structure: " \o JoinErrors(validation.errors))
               ELSE [success |-> TRUE, cancelled |-> FALSE, error |-> "", data |-> file.data]

\* the index of the entity with this id, as the id maps of createFromTemplate
\* find it: the last one wins when an id occurs twice
LastIndex(s, id) ==
  LET at == {k \in DOMAIN s : s[k].id = id}
  IN IF at = {} THEN 0 ELSE CHOOSE k \in at : \A j \in at : j <= k

\* generateShortId(): the ids generated for one collection are numbered in
\* the order of the calls; a file names its entities with ids above MaxAnyId
generateShortId(k) == k

\* bagIdMap[id] / categoryIdMap[id]: the new id of the template's entity, and
\* undefined (Null here) for an id the template does not hold
NewIdOf(s, id) == IF LastIndex(s, id) = 0 THEN Null ELSE generateShortId(LastIndex(s, id))

\* TemplateService.createFromTemplate, part_002 lines 78-142, on the loaded template
createFromTemplate(template, tripData) ==
  LET bags == [k \in DOMAIN template.bags |->
                 [template.bags[k] EXCEPT !.id = generateShortId(k)]]
      categories ==
        [k \in DOMAIN template.categories |->
           [template.categories[k] EXCEPT
              !.id = generateShortId(k),
              !.defaultBagId = IF @ # Null THEN NewIdOf(template.bags, @) ELSE Null]]
      items ==
        [k \in DOMAIN template.items |->
           [template.items[k] EXCEPT
              !.id = generateShortId(k),
              !.categoryId = IF NewIdOf(template.categories, @) # Null
                             THEN NewIdOf(template.categories, @) ELSE @,
              !.bagId = IF @ # Null THEN NewIdOf(template.bags, @) ELSE Null,
              !.packed = FALSE]]
      stages ==
        [k \in DOMAIN FieldOrEmpty(template, "stages") |->
           [template.stages[k] EXCEPT
              !.id = generateShortId(k),
              !.tasks = [j \in DOMAIN @ |->
                           [@[j] EXCEPT !.id = generateShortId(j), !.completed = FALSE]]]]
  IN [MkList(categories, items, stages)
      EXCEPT !.bags = bags, !.trip = MkTrip(tripData[1], tripData[2])]

\* the list the 'Create Trip' button of the 'Use Imported Template' dialog
\* builds, TemplatesView.js lines 320-338
useImportedTemplate(templateData, tripData) ==
  [MkList(FieldOrEmpty(templateData, "categories"),
          [k \in DOMAIN FieldOrEmpty(templateData, "items") |->
             [templateData.items[k] EXCEPT !.packed = FALSE]],
          [k \in DOMAIN FieldOrEmpty(templateData, "stages") |->
             [templateData.stages[k] EXCEPT
                !.tasks = [j \in DOMAIN @ |-> [@[j] EXCEPT !.completed = FALSE]]]])
   EXCEPT !.bags = FieldOrEmpty(templateData, "bags"),
          !.trip = MkTrip(tripData[1], tripData[2])]

\* The ids a file or a built-in template gives its entities are no ids that
\* generateShortId() returns in the model.
FileId(k) == 0 - k

\* a document as exportList / exportAsTemplate write it and a built-in
\* template holds it: category 1 has bag 1 as its default bag, item 1 is in
\* category 2 and in bag 1 and is packed, item 2 is in category 1
FileDoc ==
  [MkList(<<[MkCategory(FileId(1)) EXCEPT !.defaultBagId = FileId(1)], MkCategory(FileId(2))>>,
          <<[MkItem(FileId(1), FileId(2), 0) EXCEPT !.bagId = FileId(1), !.packed = TRUE],
            MkItem(FileId(2), FileId(1), 0)>>,
          <<MkStage(FileId(1), 0, <<[MkTask(FileId(1), 0) EXCEPT !.completed = TRUE]>>)>>)
   EXCEPT !.bags = <<MkBag(FileId(1))>>]

Without(list, fields) == [list EXCEPT !.has = @ \ fields]

ItemLacking(list, k, fields) ==
  [list EXCEPT !.items[k] =
     [@ EXCEPT !.id = IF "id" \in fields THEN Null ELSE @,
               !.name = IF "name" \in fields THEN "" ELSE @,
               !.categoryId = IF "categoryId" \in fields THEN Null ELSE @,
               !.quantityType = IF "quantityType" \in fields THEN "" ELSE @]]

BagLacking(list, k, fields) ==
  [list EXCEPT !.bags[k] =
     [@ EXCEPT !.id = IF "id" \in fields THEN Null ELSE @,
               !.name = IF "name" \in fields THEN "" ELSE @]]

ValidFiles ==
  {FileData("list", FileDoc),
   FileData("no-stages", Without(FileDoc, {"stages", "trip"})),
   [FileData("template", FileDoc) EXCEPT !.isTemplate = TRUE],
   [FileData("bare-template", Without(FileDoc, {"stages", "trip"})) EXCEPT !.isTemplate = TRUE],
   FileData("twins", [FileDoc EXCEPT !.items[2].id = FileId(1)])}

InvalidFiles ==
  {[FileData("text", NullList) EXCEPT !.parsed = FALSE],
   [FileData("null", NullList) EXCEPT !.object = FALSE],
   FileData("no-meta-no-items", Without(FileDoc, {"meta", "items"})),
   [FileData("bags-and-items-no-arrays", Without(FileDoc, {"bags", "items"}))
      EXCEPT !.scalars = {"bags", "items"}],
   [FileData("no-meta-bags-no-array", Without(FileDoc, {"meta", "bags"}))
      EXCEPT !.scalars = {"bags"}, !.isTemplate = TRUE],
   FileData("item-lacks-all", ItemLacking(FileDoc, 2, {"id", "name", "categoryId", "quantityType"})),
   FileData("item-and-bag", BagLacking(ItemLacking(FileDoc, 1, {"name"}), 1, {"id", "name"})),
   [FileData("bags-no-array-item-lacks-id", Without(ItemLacking(FileDoc, 1, {"id"}), {"bags"}))
      EXCEPT !.scalars = {"bags"}],
   [FileData("null-item", FileDoc) EXCEPT !.holed = {"items"}],
   [FileData("null-bag", ItemLacking(FileDoc, 1, {"id"})) EXCEPT !.holed = {"bags"}]}
    \cup {FileData("no-" \o f, Without(FileDoc, {f})) : f \in {"meta", "bags", "categories", "items"}}
    \cup {[FileData(f \o "-no-array", Without(FileDoc, {f})) EXCEPT !.scalars = {f}] :
            f \in {"bags", "categories", "items"}}
    \cup {FileData("item-lacks-" \o f, ItemLacking(FileDoc, 1, {f})) :
            f \in {"id", "name", "categoryId", "quantityType"}}
    \cup {FileData("bag-lacks-" \o f, BagLacking(FileDoc, 1, {f})) : f \in {"id", "name"}}

Files == {File(data) : data \in ValidFiles \cup InvalidFiles} \cup {NoFile}

FileNamed(filename) == CHOOSE file \in Files : file.data.filename = filename

\* the built-in templates of /config/templates
Templates ==
  [beach |-> FileDoc,
   city |-> Without([FileDoc EXCEPT !.items[1].bagId = Null,
                                    !.categories[1].defaultBagId = Null], {"stages"})]

TemplateIds == DOMAIN Templates

TripData == {<<1, 2>>}

\* one call of the action layer made by a handler
Call(fn, a, b) == [fn |-> fn, a |-> a, b |-> b]

Perform(s, call) ==
  CASE call.fn = "loadList" -> loadList(s, call.a)
    [] call.fn = "navigateTo" -> navigateTo(s, call.a, call.b)
    [] call.fn = "showToast" -> showToast(s, call.a, call.b)
    [] call.fn = "showModal" -> showModal(s, call.a)
    [] call.fn = "hideModal" -> hideModal(s)
    [] call.fn = "setLoading" -> setLoading(s, call.a)

\* the setState calls of one handler, in order; seen are the states the
\* calls started from
RECURSIVE setStates(_, _, _)
setStates(st, calls, t) ==
  IF calls = <<>> THEN [store |-> st, seen |-> <<>>]
  ELSE LET s == getState(st)
           rest == setStates(setState(st, Perform(s, calls[1]), t), Tail(calls), t)
       IN [store |-> rest.store, seen |-> <<s>> \o rest.seen]

Toasts(calls) == Cardinality({k \in DOMAIN calls : calls[k].fn = "showToast"})

URunSets(n) ==
  IF n = 0 THEN urun
  ELSE LET top == IF URunSet.m > maxHistory THEN URunSet.m ELSE maxHistory + 1
           m == URunSet.m + (n - 1)
       IN [m |-> IF m > top THEN top ELSE m, u |-> 0]

\* a handler that makes these calls and nothing else to the store
CommitAll(calls, op, ret) ==
  LET after == setStates(store, calls, now)
  IN /\ state' = after.store.state
     /\ history' = after.store.history
     /\ timers' = timers + Toasts(calls)
     /\ shadow' = shadow \o after.seen
     /\ urun' = URunSets(Len(calls))
     /\ zrun' = IF calls = <<>> THEN zrun ELSE ZIdle
     /\ lastOp' = OpRec(op.name, op.a, op.b, op.c, op.pos, ret, calls # <<>>, FALSE)
     /\ invoked' = IF calls = <<>> THEN <<>> ELSE notify(listeners)
     /\ alias' = {}
     /\ UNCHANGED <<now, listeners, subs>>

\* a handler starts while fewer than MaxFileDepth snapshots are kept
MaxFileDepth == 2

FileRoom == Len(history) < MaxFileDepth

Imported(result, loaded) == [result |-> result, loaded |-> loaded]

\* MyListsView: the import button of the empty state, part_003 lines 806-815
ImportList(file) ==
  LET result == importList(file)
      calls == IF result.success
               THEN <<Call("loadList", result.data.list, 0),
                      Call("showToast", "List imported successfully", "success")>>
               ELSE IF result.error # ""
               THEN <<Call("showToast", result.error, "error")>>
               ELSE <<>>
  IN /\ FileRoom
     /\ timers < MaxTimers
     /\ CommitAll(calls, Op("importList", file, "my-lists", 0, ""),
                  Imported(result, result.success))

\* app.js importList(), lines 331-339: the import entry of the header menu
ImportListFromMenu(file) ==
  LET result == importList(file)
      calls == IF result.success
               THEN <<Call("loadList", result.data.list, 0),
                      Call("navigateTo", "my-lists", "pack"),
                      Call("showToast", "List imported successfully", "success")>>
               ELSE IF result.error # ""
               THEN <<Call("showToast", result.error, "error")>>
               ELSE <<>>
  IN /\ FileRoom
     /\ timers < MaxTimers
     /\ CommitAll(calls, Op("importList", file, "app", 0, ""),
                  Imported(result, result.success))

UseImportedTitle == "Use Imported Template"

\* TemplatesView: the 'Import Template' button, lines 105-121; a template
\* opens the dialog of showUseImportedTemplateModal (lines 275-303), whose
\* content names the file
ImportTemplate(file) ==
  LET result == importList(file)
      calls == IF result.success
               THEN IF result.data.isTemplate
                    THEN <<Call("showModal",
                                [open |-> TRUE, title |-> UseImportedTitle,
                                 content |-> result.data.filename, fns |-> TRUE], 0)>>
                    ELSE <<Call("loadList", result.data.list, 0),
                           Call("navigateTo", "my-lists", "pack"),
                           Call("showToast", "List imported successfully", "success")>>
               ELSE IF result.error # ""
               THEN <<Call("showToast", result.error, "error")>>
               ELSE <<>>
  IN /\ FileRoom
     /\ timers < MaxTimers
     /\ CommitAll(calls, Op("importList", file, "templates", 0, ""),
                  Imported(result, result.success /\ ~result.data.isTemplate))

\* TemplatesView lines 306-344: 'Create Trip' in the 'Use Imported Template' dialog
UseImportedTemplate(tripData) ==
  LET templateData == FileNamed(state.ui.modal.content).data.list
      list == useImportedTemplate(templateData, tripData)
  IN /\ FileRoom
     /\ timers < MaxTimers
     /\ state.ui.modal.open
     /\ state.ui.modal.title = UseImportedTitle
     /\ CommitAll(<<Call("loadList", list, 0),
                    Call("hideModal", 0, 0),
                    Call("navigateTo", "my-lists", "pack"),
                    Call("showToast", "Trip created from imported template", "success")>>,
                  Op("useImportedTemplate", templateData, tripData, 0, ""), TRUE)

CreateFromTitle == "Create Trip from Template"

\* TemplatesView lines 133-162: 'Use Template' on a template card
ShowCreateFromTemplateModal(templateId) ==
  /\ FileRoom
  /\ Commit(showModal(getState(store),
                      [open |-> TRUE, title |-> CreateFromTitle, content |-> templateId,
                       fns |-> TRUE]),
            Op("showModal", templateId, 0, 0, ""), "other", timers)

\* TemplatesView lines 181-206: 'Create Trip' in that dialog; fetched tells
\* whether loadTemplate got the template file
CreateFromTemplate(tripData, fetched) ==
  LET templateId == state.ui.modal.content
      template == Templates[templateId]
      calls == IF fetched
               THEN <<Call("setLoading", TRUE, 0),
                      Call("loadList", createFromTemplate(template, tripData), 0),
                      Call("hideModal", 0, 0),
                      Call("navigateTo", "my-lists", "pack"),
                      Call("showToast", "Trip created from template", "success"),
                      Call("setLoading", FALSE, 0)>>
               ELSE <<Call("setLoading", TRUE, 0),
                      Call("showToast", "Failed to create trip: Failed to load template", "error"),
                      Call("setLoading", FALSE, 0)>>
  IN /\ FileRoom
     /\ timers < MaxTimers
     /\ state.ui.modal.open
     /\ state.ui.modal.title = CreateFromTitle
     /\ CommitAll(calls, Op("createFromTemplate", template, tripData, 0, ""), fetched)

\* the files tried through the header menu and through the templates page
MenuFiles == {NoFile, File(FileData("list", FileDoc)), FileNamed("no-items"), FileNamed("text")}

TemplateFiles ==
  {NoFile, FileNamed("no-meta-bags-no-array"), FileNamed("null-item")}
    \cup {File(data) : data \in ValidFiles}

NextFiles ==
  \/ \E file \in Files : ImportList(file)
  \/ \E file \in MenuFiles : ImportListFromMenu(file)
  \/ \E file \in TemplateFiles : ImportTemplate(file)
  \/ \E tripData \in TripData : UseImportedTemplate(tripData)
  \/ \E templateId \in TemplateIds : ShowCreateFromTemplateModal(templateId)
  \/ \E tripData \in TripData, fetched \in BOOLEAN : CreateFromTemplate(tripData, fetched)
  \/ AddBag
  \/ HideModal
  \/ Undo

SpecFiles == Init /\ [][NextFiles]_vars

----------------------------------------------------------------------------
(* Import and template claims *)

\* the problems of a parsed file, in the words of validatePackingList's messages
Problems(data) ==
  LET items == IF "items" \in data.list.has THEN data.list.items ELSE <<>>
      bags == IF "bags" \in data.list.has THEN data.list.bags ELSE <<>>
      item(k) == "Item " \o ToString(k - 1) \o ": missing "
      bag(k) == "Bag " \o ToString(k - 1) \o ": missing "
  IN {"Missing required field: " \o f :
        f \in {"meta", "bags", "categories", "items"} \ (data.list.has \cup data.scalars)}
       \cup {"Bags must be an array" : f \in data.scalars \cap {"bags"}}
       \cup {"Categories must be an array" : f \in data.scalars \cap {"categories"}}
       \cup {"Items must be an array" : f \in data.scalars \cap {"items"}}
       \cup {item(k) \o "id" : k \in {j \in DOMAIN items : items[j].id = Null}}
       \cup {item(k) \o "name" : k \in {j \in DOMAIN items : items[j].name = ""}}
       \cup {item(k) \o "categoryId" : k \in {j \in DOMAIN items : items[j].categoryId = Null}}
       \cup {item(k) \o "quantityType" : k \in {j \in DOMAIN items : items[j].quantityType = ""}}
       \cup {bag(k) \o "id" : k \in {j \in DOMAIN bags : bags[j].id = Null}}
       \cup {bag(k) \o "name" : k \in {j \in DOMAIN bags : bags[j].name = ""}}

\* the chosen file parses to an object with at least one of the problems
Refused(file) ==
  /\ file.chosen /\ file.data.parsed /\ file.data.object /\ file.data.holed = {}
  /\ Problems(file.data) # {}

\* the result is a failure whose error lists problems the file has
Enumerated(file, result) ==
  LET errors == validatePackingList(file.data).errors
  IN /\ ~result.success /\ ~result.cancelled
     /\ errors # <<>>
     /\ \A k \in DOMAIN errors : errors[k] \in Problems(file.data)
     /\ result.error = "Invalid file structure: " \o JoinErrors(errors)

\* C21: an import of a file that lacks a required field, has a bags,
\* categories or items value that is no array, or holds an item without id,
\* name, categoryId or quantityType or a bag without id or name, gives a
\* failure whose error enumerates the problems, does not call loadList and
\* leaves the store's currentList and undo history as they were; and a
\* document is loaded only when validation reports valid.
C21_ImportRefusedWhole ==
  [][lastOp'.name = "importList"
       => /\ Refused(lastOp'.a)
             => /\ Enumerated(lastOp'.a, lastOp'.ret.result)
                /\ ~lastOp'.ret.loaded
                /\ state'.currentList = state.currentList
                /\ history' = history
          /\ lastOp'.ret.loaded
             => /\ lastOp'.a.chosen /\ lastOp'.a.data.parsed
                /\ validatePackingList(lastOp'.a.data).valid]_vars

\* what C21 says apart from the undo history
ImportRefusedButHistory ==
  [][lastOp'.name = "importList"
       => /\ Refused(lastOp'.a)
             => /\ Enumerated(lastOp'.a, lastOp'.ret.result)
                /\ ~lastOp'.ret.loaded
                /\ state'.currentList = state.currentList
          /\ lastOp'.ret.loaded
             => /\ lastOp'.a.chosen /\ lastOp'.a.data.parsed
                /\ validatePackingList(lastOp'.a.data).valid]_vars

UniqueIds(s) == \A j, k \in DOMAIN s : j # k => s[j].id # s[k].id

\* the entities of new are those of old in the same order, each with an id
\* that old does not hold and that no other entity of new has
FreshIds(old, new) ==
  /\ Len(new) = Len(old)
  /\ UniqueIds(new)
  /\ \A k \in DOMAIN new : new[k].id \notin Ids(old)

\* a reference is null where the template had none, and else the new id of
\* the entity the template's reference named
Rewritten(was, is, old, new) ==
  IF was = Null THEN is = Null
  ELSE \E k \in DOMAIN old : k \in DOMAIN new /\ old[k].id = was /\ is = new[k].id

InstantiatedFrom(template, list) ==
  LET oldBags == FieldOrEmpty(template, "bags")
      oldCategories == FieldOrEmpty(template, "categories")
      oldItems == FieldOrEmpty(template, "items")
      oldStages == FieldOrEmpty(template, "stages")
  IN /\ ~list.null
     /\ FreshIds(oldBags, list.bags)
     /\ FreshIds(oldCategories, list.categories)
     /\ FreshIds(oldItems, list.items)
     /\ FreshIds(oldStages, list.stages)
     /\ \A k \in DOMAIN list.stages : FreshIds(oldStages[k].tasks, list.stages[k].tasks)
     /\ \A k \in DOMAIN list.categories :
          Rewritten(oldCategories[k].defaultBagId, list.categories[k].defaultBagId,
                    oldBags, list.bags)
     /\ \A k \in DOMAIN list.items :
          /\ Rewritten(oldItems[k].categoryId, list.items[k].categoryId,
                       oldCategories, list.categories)
          /\ Rewritten(oldItems[k].bagId, list.items[k].bagId, oldBags, list.bags)
          /\ ~list.items[k].packed
     /\ \A k \in DOMAIN list.stages :
          \A j \in DOMAIN list.stages[k].tasks : ~list.stages[k].tasks[j].completed

\* C22: the document loaded by createFromTemplate from a built-in template,
\* and the one loaded by the 'Use Imported Template' dialog from an imported
\* template, has a freshly generated id for every bag, category, item, stage
\* and task, every defaultBagId, categoryId and bagId rewritten to the new id
\* of the entity it named, and every packed and completed flag false.
C22_TemplateInstantiation ==
  [][lastOp'.name \in {"createFromTemplate", "useImportedTemplate"} /\ lastOp'.ret
       => InstantiatedFrom(lastOp'.a, state'.currentList)]_vars

\* C22 for the built-in templates alone
BuiltInInstantiation ==
  [][lastOp'.name = "createFromTemplate" /\ lastOp'.ret
       => InstantiatedFrom(lastOp'.a, state'.currentList)]_vars

\* the flags of C22 on the imported path
ImportedFlagsReset ==
  [][lastOp'.name = "useImportedTemplate"
       => /\ \A k \in DOMAIN state'.currentList.items : ~state'.currentList.items[k].packed
          /\ \A k \in DOMAIN state'.currentList.stages :
               \A j \in DOMAIN state'.currentList.stages[k].tasks :
                 ~state'.currentList.stages[k].tasks[j].completed]_vars

UniqueInDocument(list) ==
  /\ \A f \in {"bags", "categories", "items", "stages"} : UniqueIds(FieldOrEmpty(list, f))
  /\ \A k \in DOMAIN FieldOrEmpty(list, "stages") : UniqueIds(list.stages[k].tasks)

\* C29: in every reachable document the ids of the bags, of the categories,
\* of the items, of the stages and of the tasks of each stage are unique,
\* however the document came about, and an add Action gives the new entity
\* an id that no entity of its collection has.
C29_IdUniqueness ==
  /\ [](state.currentList.null \/ UniqueInDocument(state.currentList))
  /\ [][lastOp'.name = "addBag"
          => lastOp'.a \notin Ids(FieldOrEmpty(state.currentList, "bags"))]_vars

\* no call but an import, and an undo that goes back to one, ends uniqueness
UniqueUnlessImported ==
  [][lastOp'.name \notin {"importList", "undo"} /\ UniqueInDocument(state.currentList)
       => UniqueInDocument(state'.currentList)]_vars

----------------------------------------------------------------------------
(* Computed selectors: js/state/actions.js lines 668-784.  A selector reads *)
(* store.getState(); what it returns is Got(value), or Raises when it       *)
(* throws.                                                                  *)

Got(val) == [threw |-> FALSE, val |-> val]

Raises == [threw |-> TRUE, val |-> <<>>]

\* state.currentList.categories.find(c => c.id === item.categoryId)?.defaultBagId,
\* undefined and null both Null
DefaultBagOf(categories, item) ==
  IF Has(categories, item.categoryId) THEN Find(categories, item.categoryId).defaultBagId
  ELSE Null

\* getEffectiveBagId(item), lines 778-784
getEffectiveBagId(s, item) ==
  IF item.bagId # Null THEN item.bagId
  ELSE DefaultBagOf(FieldOrEmpty(s.currentList, "categories"), item)

\* getItemsByBag(bagId), lines 712-724: the categories are read for the items
\* that have no bag of their own
getItemsByBag(s, bagId) ==
  IF s.currentList.null THEN Got(<<>>)
  ELSE IF Missing(s.currentList, "items") THEN Raises
  ELSE IF Missing(s.currentList, "categories")
          /\ \E k \in DOMAIN s.currentList.items : s.currentList.items[k].bagId = Null
  THEN Raises
  ELSE Got(Filter(s.currentList.items, LAMBDA item :
                    IF item.bagId # Null THEN item.bagId = bagId
                    ELSE DefaultBagOf(FieldOrEmpty(s.currentList, "categories"), item) = bagId))

\* getUnassignedItems(), lines 748-757
getUnassignedItems(s) ==
  IF s.currentList.null THEN Got(<<>>)
  ELSE IF Missing(s.currentList, "items") THEN Raises
  ELSE IF Missing(s.currentList, "categories")
          /\ \E k \in DOMAIN s.currentList.items : s.currentList.items[k].bagId = Null
  THEN Raises
  ELSE Got(Filter(s.currentList.items, LAMBDA item :
                    IF item.bagId # Null THEN FALSE
                    ELSE DefaultBagOf(FieldOrEmpty(s.currentList, "categories"), item) = Null))

\* the two-step lookup: the item's own bag, else the default bag of its
\* category, else none
EffectiveBag(list, item) ==
  IF item.bagId # Null THEN item.bagId
  ELSE IF \E k \in DOMAIN FieldOrEmpty(list, "categories") :
            list.categories[k].id = item.categoryId
  THEN (CHOOSE c \in {list.categories[k] : k \in DOMAIN list.categories} :
          c.id = item.categoryId).defaultBagId
  ELSE Null

ItemsWithBag(list, bagId) ==
  SelectSeq(FieldOrEmpty(list, "items"), LAMBDA item : EffectiveBag(list, item) = bagId)

\* the number of lists among getUnassignedItems() and getItemsByBag(b), b a
\* bag of the document, that hold the item
ListsHolding(s, item) ==
  Cardinality({b \in Ids(FieldOrEmpty(s.currentList, "bags")) :
                 \E k \in DOMAIN getItemsByBag(s, b).val : getItemsByBag(s, b).val[k] = item})
    + (IF \E k \in DOMAIN getUnassignedItems(s).val : getUnassignedItems(s).val[k] = item
       THEN 1 ELSE 0)

EffectiveBagResolution(s) ==
  LET list == s.currentList
      items == FieldOrEmpty(list, "items")
  IN /\ \A k \in DOMAIN items : getEffectiveBagId(s, items[k]) = EffectiveBag(list, items[k])
     /\ \A b \in Ids(FieldOrEmpty(list, "bags")) :
          getItemsByBag(s, b) = Got(ItemsWithBag(list, b))
     /\ getUnassignedItems(s) = Got(ItemsWithBag(list, Null))
     /\ \A k \in DOMAIN items : ListsHolding(s, items[k]) = 1

\* C31: in every document reachable by Actions getEffectiveBagId(item) is the
\* item's bagId if set, else the defaultBagId of its category, else none;
\* getItemsByBag(b) returns exactly the items whose effective bag is b and
\* getUnassignedItems() exactly those without one, so each item is in exactly
\* one of getUnassignedItems() and getItemsByBag(b), b a bag of the document.
C31_EffectiveBagResolution == EffectiveBagResolution(getState(store))

\* C31 for the documents that hold items and categories
ResolutionOnWholeDocuments ==
  LET list == getState(store).currentList
  IN ~list.null /\ {"items", "categories"} \subseteq list.has
       => EffectiveBagResolution(getState(store))

----------------------------------------------------------------------------
(* Notification with listeners that act on what they receive: store.js      *)
(* lines 62-124.  notify() makes one copy of the state and hands that same  *)
(* object to every listener; a listener may write to it, raise, or call     *)
(* setState or undo before it returns.                                      *)

\* reader only reads; thrower raises; scribbler writes ui.currentView of the
\* object it received; closer calls setLoading(false) when it sees isLoading;
\* leaver calls store.undo() when it sees the settings view
Behaviours == {"reader", "thrower", "scribbler", "closer", "leaver"}

MaxListeners == 3

\* the registered listeners, in subscription order; at most one of them calls
\* back into the store
ListenerOrders ==
  {ls \in UNION {[1..n -> Behaviours] : n \in 0..MaxListeners} :
     /\ \A j, k \in DOMAIN ls : j # k => ls[j] # ls[k]
     /\ ~({"closer", "leaver"} \subseteq {ls[k] : k \in DOMAIN ls})}

Delivery(f, value, committed) == [listener |-> f, value |-> value, committed |-> committed]

\* notify(), lines 102-111, run to completion: st is the store, value the
\* object made at line 103 as the listeners before have left it, committed
\* the state that object was copied from, rest the listeners the forEach of
\* this call has yet to reach, all the registered listeners, log the
\* deliveries so far.  A call of setState or undo made by a listener runs its
\* own notify() before the listener returns.
RECURSIVE notifyRest(_, _, _, _, _, _, _)
notifyRest(st, value, committed, rest, all, log, t) ==
  IF rest = <<>> THEN [store |-> st, log |-> log]
  ELSE LET f == Head(rest)
           delivered == Append(log, Delivery(f, value, committed))
           handed == IF f = "scribbler" THEN Scribble(value, "ui") ELSE value
           called ==
             CASE f = "closer" /\ value.ui.isLoading ->
                    LET next == setState(st, setLoading(getState(st), FALSE), t)
                    IN notifyRest(next, getState(next), getState(next), all, all, delivered, t)
               [] f = "leaver" /\ value.ui.currentView = "settings" /\ canUndo(st) ->
                    LET next == undo(st)
                    IN notifyRest(next, getState(next), getState(next), all, all, delivered, t)
               [] OTHER -> [store |-> st, log |-> delivered]
       IN notifyRest(called.store, handed, committed, Tail(rest), all, called.log, t)

\* setState / undo followed by its notify()
Notified(st, all, t) == notifyRest(st, getState(st), getState(st), all, all, <<>>, t)

InitNotify ==
  /\ state = getInitialState
  /\ history = <<>>
  /\ timers = 0
  /\ now = 0
  /\ lastOp = OpRec("init", 0, 0, 0, "", <<>>, FALSE, FALSE)
  /\ shadow = <<>>
  /\ zrun = ZIdle
  /\ urun = [m |-> 0, u |-> 0]
  /\ listeners \in ListenerOrders
  /\ subs = [f \in ListenerFns |-> 0]
  /\ invoked = <<>>
  /\ alias = {}

\* the outermost call returns: the store as the nested calls left it, and in
\* lastOp.ret the deliveries made before it returned
Returns(after, name, arg) ==
  /\ state' = after.store.state
  /\ history' = after.store.history
  /\ lastOp' = OpRec(name, arg, 0, 0, "", after.log, TRUE, FALSE)
  /\ invoked' = [k \in DOMAIN after.log |-> after.log[k].listener]
  /\ UNCHANGED <<timers, now, shadow, zrun, urun, listeners, subs, alias>>

\* setLoading(isLoading) / navigateTo(view) called from outside a listener
SetStateNotified(call) ==
  /\ Room
  /\ Returns(Notified(setState(store, Perform(getState(store), call), now), listeners, now),
             "setState", call)

\* store.undo() called from outside a listener, with something to undo
UndoNotified ==
  /\ canUndo(store)
  /\ Returns(Notified(undo(store), listeners, now), "undo", 0)

NextNotify ==
  \/ \E isLoading \in BOOLEAN : SetStateNotified(Call("setLoading", isLoading, 0))
  \/ \E view \in Views : SetStateNotified(Call("navigateTo", view, "null"))
  \/ UndoNotified

SpecNotify == InitNotify /\ [][NextNotify]_vars

Deliveries == lastOp.ret

\* the last value listener f received during the call
LastReceived(f) ==
  LET at == {k \in DOMAIN Deliveries : Deliveries[k].listener = f}
  IN Deliveries[CHOOSE k \in at : \A j \in at : j <= k].value

\* C32: the value each listener receives for an update is the store's state
\* as that update committed it, whatever other listeners do with the value
\* they received; and once the outermost setState has returned, the last
\* value every listener received equals getState(), also when a listener
\* called setState or undo during the notification.
C32_SubscribersSeeCommitted ==
  lastOp.name \in {"setState", "undo"}
    => /\ \A k \in DOMAIN Deliveries : Deliveries[k].value = Deliveries[k].committed
       /\ lastOp.name = "setState"
            => \A k \in DOMAIN listeners : LastReceived(listeners[k]) = getState(store)

\* C32 for listeners that neither write to what they receive nor call the store
SeeCommittedWhenPassive ==
  lastOp.name \in {"setState", "undo"}
    /\ {listeners[k] : k \in DOMAIN listeners} \subseteq {"reader", "thrower"}
    => /\ \A k \in DOMAIN Deliveries : Deliveries[k].value = Deliveries[k].committed
       /\ \A k \in DOMAIN listeners : LastReceived(listeners[k]) = getState(store)

\* the first half of C32 without a scribbler, the second without closer and leaver
SeeCommittedOtherwise ==
  lastOp.name \in {"setState", "undo"}
    => /\ (\A k \in DOMAIN listeners : listeners[k] # "scribbler")
            => \A k \in DOMAIN Deliveries : Deliveries[k].value = Deliveries[k].committed
       /\ (\A k \in DOMAIN listeners : listeners[k] \in {"reader", "thrower"})
            => \A k \in DOMAIN listeners : LastReceived(listeners[k]) = getState(store)

----------------------------------------------------------------------------
(* Toasts with their durations: js/state/actions.js lines 639-656.  Here    *)
(* timers is the queue of the pending setTimeout callbacks, each with the   *)
(* message of the showToast call that started it and the time it is due.    *)

MaxToastClock == 3

Durations == {1, 2}

Messages == {"Item moved", "Bag added", "List imported successfully"}

Timeout(message, due) == [message |-> message, due |-> due]

\* the messages of the toast on display and of the toasts whose timers are pending
LiveMessages ==
  {timers[k].message : k \in DOMAIN timers}
    \cup (IF state.ui.toast.shown THEN {state.ui.toast.message} ELSE {})

\* the callback a timer queue runs next: due, and none is due before it
NextDue(k) ==
  /\ timers[k].due <= now
  /\ \A j \in DOMAIN timers :
       timers[j].due > timers[k].due \/ (timers[j].due = timers[k].due /\ j >= k)

Without1(s, k) == [j \in 1..(Len(s) - 1) |-> IF j < k THEN s[j] ELSE s[j + 1]]

InitToast ==
  /\ state = getInitialState
  /\ history = <<>>
  /\ timers = <<>>
  /\ now = 0
  /\ lastOp = OpRec("init", 0, 0, 0, "", FALSE, FALSE, FALSE)
  /\ shadow = <<>>
  /\ zrun = ZIdle
  /\ urun = [m |-> 0, u |-> 0]
  /\ listeners = <<>>
  /\ subs = [f \in ListenerFns |-> 0]
  /\ invoked = <<>>
  /\ alias = {}

\* showToast(message, type, duration), lines 645-656: the toast is set and
\* its auto-hide timer is started
ShowToastFor(message, duration) ==
  /\ Room
  /\ Len(timers) < MaxTimers
  /\ now + duration <= MaxToastClock
  /\ message \notin LiveMessages
  /\ Commit(showToast(getState(store), message, "info"),
            Op("showToast", message, duration, 0, ""), "other",
            Append(timers, Timeout(message, now + duration)))

\* lines 651-655: the auto-hide callback of the timer that is due runs
TimeoutFires(k) ==
  /\ NextDue(k)
  /\ Commit(hideToast(getState(store)), Op("hideToast", timers[k].message, 0, 0, ""), "timer",
            Without1(timers, k))

\* app.js lines 109-117: Ctrl+Z is store.undo() and, when that returned true,
\* showToast('Undone', 'info', 1500)
KeyCtrlZTimed ==
  LET undone == undo(store)
      after == setState(undone, showToast(getState(undone), "Undone", "info"), now)
  IN /\ undoReturns(store)
     /\ Len(timers) < MaxTimers
     /\ now + 1 <= MaxToastClock
     /\ state' = after.state
     /\ history' = after.history
     /\ timers' = Append(timers, Timeout("Undone", now + 1))
     /\ shadow' = Append(Front(shadow), getState(undone))
     /\ urun' = [m |-> 1, u |-> 0]
     /\ zrun' = ZPress
     /\ lastOp' = OpRec("ctrlZ", "Undone", 1, 0, "", TRUE, TRUE, FALSE)
     /\ invoked' = notify(listeners) \o notify(listeners)
     /\ alias' = {}
     /\ UNCHANGED <<now, listeners, subs>>

\* time passes
Elapse ==
  /\ now < MaxToastClock
  /\ now' = now + 1
  /\ lastOp' = OpRec("tick", 0, 0, 0, "", FALSE, FALSE, FALSE)
  /\ UNCHANGED <<state, history, timers, shadow, zrun, urun, listeners, subs, invoked, alias>>

Timeouts == \E k \in DOMAIN timers : TimeoutFires(k)

NextToast ==
  \/ \E message \in Messages, duration \in Durations : ShowToastFor(message, duration)
  \/ Timeouts
  \/ NavigateTo("settings")
  \/ Undo
  \/ KeyCtrlZTimed
  \/ Elapse

SpecToast == InitToast /\ [][NextToast]_vars

\* every pending timer eventually fires, and time passes
SpecToastLive == SpecToast /\ WF_vars(Timeouts) /\ WF_vars(Elapse)

Toast == state.ui.toast

\* the step shows a toast
Shows == lastOp'.name \in {"showToast", "ctrlZ"}

\* the step is the auto-hide of the toast on display
HidesOwn == lastOp'.name = "hideToast" /\ lastOp'.a = Toast.message

\* C33: a toast stays in ui.toast until its own timer hides it, which is when
\* its duration has elapsed, or a later showToast replaces it; in particular
\* the timer of an earlier toast does not clear a toast shown later.
C33_ToastLifetime ==
  [][Toast.shown /\ ~Shows /\ ~HidesOwn => state'.ui.toast = Toast]_vars

\* C33 for the steps that are neither a timer's callback nor an undo
ToastKeptByOtherCalls ==
  [][Toast.shown /\ lastOp'.name \notin {"showToast", "ctrlZ", "hideToast", "undo"}
       => state'.ui.toast = Toast]_vars

\* a timer's callback runs no earlier than its duration after its showToast
TimeoutNotEarly ==
  [][lastOp'.name = "hideToast"
       => \E k \in DOMAIN timers : timers[k].message = lastOp'.a /\ timers[k].due <= now]_vars

\* the callback of another toast's timer clears the toast on display
EarlierTimerSpares ==
  [][Toast.shown /\ lastOp'.name = "hideToast" /\ ~HidesOwn => state'.ui.toast = Toast]_vars

\* C34: whenever a toast is on display it eventually is not, given that the
\* pending timers fire and no further showToast is issued from some point on;
\* and a toast is never on display with no timer pending to hide it.
C34_ToastsDisappear ==
  /\ [](Toast.shown => timers # <<>>)
  /\ <>[][~Shows]_vars => (Toast.shown ~> ~Toast.shown)

\* C34 as long as store.undo() is not called
ToastHasTimerUnlessUndone ==
  [][lastOp'.name \notin {"undo", "ctrlZ"} /\ (Toast.shown => timers # <<>>)
       => (state'.ui.toast.shown => timers' # <<>>)]_vars

----------------------------------------------------------------------------
(* Appending: addItem, moveItemToCategory and addTaskToStage, actions.js    *)
(* lines 187-214, 261-270 and 450-477, on documents built by the Actions    *)
(* and on imported documents.                                               *)

NextAppend ==
  \/ LoadEmptyList
  \/ \E l \in LoadableLists : LoadList(l)
  \/ \E filename \in {"list", "twins"} : ImportList(FileNamed(filename))
  \/ \E c \in CategoryIds : AddItem(c)
  \/ \E i \in ItemIds, c \in CategoryIds : MoveItemToCategory(i, c)
  \/ \E i \in ItemIds : RemoveItem(i)
  \/ \E g \in StageIds : AddTaskToStage(g)
  \/ \E g \in StageIds : \E t \in TaskIds(g) : RemoveTask(g, t)
  \/ Undo

SpecAppend == Init /\ [][NextAppend]_vars

\* the positions of scope that hold an entity of the given id
PositionsOf(scope, id) == {k \in DOMAIN scope : scope[k].id = id}

\* the positions of items that hold an item of the category
InCategory(items, categoryId) == {k \in DOMAIN items : items[k].categoryId = categoryId}

\* the entity at position k has an order above that of every other entity at
\* the positions of among
Above(scope, k, among) ==
  /\ scope[k].order # NoOrder
  /\ \A j \in among \ {k} : OrderOrZero(scope[j]) < scope[k].order

DistinctOrders(scope, among) ==
  \A j, k \in among : j # k => OrderOrZero(scope[j]) # OrderOrZero(scope[k])

\* position k of scope is where the sort by order puts the last of among
SortsLast(scope, k, among) ==
  \A j \in among : OrderOrZero(scope[j]) <= OrderOrZero(scope[k])

\* what the call gave the items at the positions moved of the category
AppendedItems(pre, post, moved, categoryId) ==
  LET before == InCategory(pre, categoryId)
      after == InCategory(post, categoryId)
  IN /\ \A k \in moved :
          /\ k \in after
          /\ Above(post, k, after)
          /\ SortsLast(post, k, after)
          /\ before = {} => post[k].order = 0
     /\ DistinctOrders(pre, before) => DistinctOrders(post, after)

AppendedTasks(pre, post, stageId, taskId) ==
  \A g \in PositionsOf(post, stageId) :
    LET tasks == post[g].tasks
        k == Len(tasks)
    IN /\ tasks # <<>>
       /\ tasks[k].id = taskId
       /\ Above(tasks, k, DOMAIN tasks)
       /\ SortsLast(tasks, k, DOMAIN tasks)
       /\ pre[g].tasks = <<>> => tasks[k].order = 0
       /\ DistinctOrders(pre[g].tasks, DOMAIN pre[g].tasks) => DistinctOrders(tasks, DOMAIN tasks)

AppendAtEnd ==
  /\ Called("addItem") =>
       AppendedItems(FieldOrEmpty(PreList, "items"), PostList.items,
                     {Len(PostList.items)}, lastOp.b)
  /\ Called("moveItemToCategory") =>
       AppendedItems(PreList.items, PostList.items,
                     PositionsOf(PostList.items, lastOp.a), lastOp.b)
  /\ Called("addTaskToStage") =>
       AppendedTasks(PreList.stages, PostList.stages, lastOp.c, lastOp.a)

\* C35: addItem(data) and moveItemToCategory(item, c) give the added or moved
\* item an order strictly greater than the order of every other item of the
\* target category, and 0 when the category is empty, so the item sorts last
\* and orders that were pairwise distinct in the category stay pairwise
\* distinct; addTaskToStage does the same for the tasks of its stage.
C35_AppendAtEnd == AppendAtEnd

\* the same for calls on a document in which no two entities share an id
AppendAtEndUniqueIds == shadow # <<>> /\ UniqueInDocument(PreList) => AppendAtEnd

----------------------------------------------------------------------------
(* The order of a new stage: addStage, actions.js lines 365-384, after      *)
(* createEmptyList (getDefaultStages, part_002 lines 189-204), loadList,    *)
(* removeStage and reorderStage.                                            *)

StagesOf(list) == FieldOrEmpty(list, "stages")

NewStageLast ==
  Called("addStage") =>
    LET stages == StagesOf(PostList)
    IN /\ Above(stages, Len(stages), DOMAIN stages)
       /\ SortsLast(stages, Len(stages), DOMAIN stages)

NoSharedStageOrder ==
  DistinctOrders(StagesOf(getState(store).currentList),
                 DOMAIN StagesOf(getState(store).currentList))

\* C36: in every document reached from createEmptyList or a template by
\* addStage, removeStage and reorderStage, addStage gives the new stage an
\* order strictly greater than that of every existing stage, so that no two
\* stages ever share an order and the new stage is displayed last.
C36_NewStageLast == NewStageLast /\ NoSharedStageOrder

\* what addStage gives the new stage: the number of stages before the call
NewStageOrderIsCount ==
  Called("addStage") =>
    /\ Len(StagesOf(PostList)) = Len(StagesOf(PreList)) + 1
    /\ Last(StagesOf(PostList)).order = Len(StagesOf(PreList))

\* the new stage is above the others when the orders before the call are
\* the indices 0..n-1
NewStageLastWhenDense ==
  Called("addStage") /\ Dense(StagesOf(PreList)) => NewStageLast /\ NoSharedStageOrder

----------------------------------------------------------------------------
(* What a reorder leaves alone: reorderItem, reorderStage and reorderTask,  *)
(* actions.js lines 278-341, 421-442 and 551-580, on documents built by the *)
(* Actions and on imported documents.                                       *)

NextFrame ==
  \/ \E l \in LoadableLists \cup {ListC} : LoadList(l)
  \/ \E filename \in {"list", "twins"} : ImportList(FileNamed(filename))
  \/ \E i \in ItemIds, c \in CategoryIds : MoveItemToCategory(i, c)
  \/ \E i \in ItemIds, j \in ItemIds, p \in Positions : ReorderItem(i, j, p)
  \/ \E g \in StageIds, h \in StageIds, p \in Positions : ReorderStage(g, h, p)
  \/ \E g \in StageIds : \E t \in TaskIds(g), u \in TaskIds(g), p \in Positions : ReorderTask(g, t, u, p)
  \/ Undo

SpecFrame == Init /\ [][NextFrame]_vars

Unordered(e) == [e EXCEPT !.order = 0]

Copies(scope, e) == Cardinality({k \in DOMAIN scope : Unordered(scope[k]) = Unordered(e)})

\* post holds the entities of pre, each as often as pre, with no field but
\* order changed
SameEntities(pre, post) ==
  /\ Len(post) = Len(pre)
  /\ \A k \in DOMAIN pre : Copies(post, pre[k]) = Copies(pre, pre[k])

ItemFrame(pre, post, itemId, targetItemId) ==
  IF ~(Has(pre, itemId) /\ Has(pre, targetItemId)) THEN post = pre
  ELSE LET item == Find(pre, itemId)
           targetItem == Find(pre, targetItemId)
       IN /\ Len(post) = Len(pre)
          /\ \A k \in DOMAIN pre :
               IF pre[k].categoryId \notin {item.categoryId, targetItem.categoryId}
               THEN post[k] = pre[k]
               ELSE \/ Unordered(post[k]) = Unordered(pre[k])
                    \/ /\ pre[k].id = itemId
                       /\ Unordered(post[k]) =
                            Unordered([pre[k] EXCEPT !.categoryId = targetItem.categoryId])

TaskFrame(pre, post, stageId) ==
  /\ Len(post) = Len(pre)
  /\ \A g \in DOMAIN pre :
       IF pre[g].id # stageId THEN post[g] = pre[g]
       ELSE /\ post[g] = [pre[g] EXCEPT !.tasks = post[g].tasks]
            /\ SameEntities(pre[g].tasks, post[g].tasks)

ReorderFrame ==
  /\ Called("reorderItem") =>
       /\ ItemFrame(PreList.items, PostList.items, lastOp.a, lastOp.b)
       /\ [Entities(PostList) EXCEPT !.items = PreList.items] = Entities(PreList)
  /\ Called("reorderStage") =>
       /\ SameEntities(PreList.stages, PostList.stages)
       /\ [Entities(PostList) EXCEPT !.stages = PreList.stages] = Entities(PreList)
  /\ Called("reorderTask") =>
       /\ TaskFrame(PreList.stages, PostList.stages, lastOp.c)
       /\ [Entities(PostList) EXCEPT !.stages = PreList.stages] = Entities(PreList)

\* C37: reorderItem, reorderTask and reorderStage never add, remove or
\* duplicate an entity and change nothing but order values inside the
\* affected scopes and, for a cross-category move, the moved item's
\* categoryId: items of uninvolved categories, tasks of other stages, bags,
\* categories, the trip and every name, bagId, packed and completed field
\* are unchanged.
C37_ReorderFrame == ReorderFrame

\* the same for calls on a document in which no two entities share an id
ReorderFrameUniqueIds == shadow # <<>> /\ UniqueInDocument(PreList) => ReorderFrame

----------------------------------------------------------------------------
(* Progress selectors: getPackingProgress and getStageProgress, actions.js  *)
(* lines 695-705 and 759-771.                                               *)

MaxProgressItems == 201

\* (count / length) * 100 is computed in binary floating point. For these
\* count / length the exact share ends in .5 and the computed product lies
\* just below it (23 / 40 * 100 is 57.49999999999999); there are no others up
\* to a length of 202.
TiesLost ==
  {<<23, 40>>, <<46, 80>>, <<69, 120>>, <<92, 160>>,
   <<29, 200>>, <<57, 200>>, <<113, 200>>, <<115, 200>>}

\* Math.round((count / length) * 100): a half is rounded up
Percentage(count, length) ==
  IF <<count, length>> \in TiesLost THEN (100 * count) \div length
  ELSE (200 * count + length) \div (2 * length)

\* lines 699-704
getPackingProgress(s) ==
  LET items == FieldOrEmpty(s.currentList, "items")
      packedCount == Len(Filter(items, LAMBDA i : i.packed))
  IN IF Len(items) = 0 THEN 0 ELSE Percentage(packedCount, Len(items))

\* lines 764-770
getStageProgress(s, stageId) ==
  LET stages == FieldOrEmpty(s.currentList, "stages")
  IN IF ~Has(stages, stageId) \/ Len(Find(stages, stageId).tasks) = 0 THEN 0
     ELSE LET tasks == Find(stages, stageId).tasks
              completedCount == Len(Filter(tasks, LAMBDA t : t.completed))
          IN Percentage(completedCount, Len(tasks))

\* a document of n items, the first p of them packed, whose stage 1 has n
\* tasks, the first p of them completed, and whose stage 2 has no task
ProgressList(n, p) ==
  MkList(<<MkCategory(1)>>,
         [k \in 1..n |-> [MkItem(k, 1, k - 1) EXCEPT !.packed = (k <= p)]],
         <<MkStage(1, 0, [k \in 1..n |-> [MkTask(k, k - 1) EXCEPT !.completed = (k <= p)]]),
           MkStage(2, 1, <<>>)>>)

MaxShortList == 8

TieLength == 40

\* short lists, a list where a tie is lost, and the longest lists
ProgressLengths ==
  (0..MaxShortList) \cup {TieLength} \cup ((MaxProgressItems - 2)..MaxProgressItems)

ProgressLists ==
  {NullList, Without(ProgressList(1, 1), {"items", "stages"})}
    \cup UNION {{ProgressList(n, p) : p \in 0..n} : n \in ProgressLengths}

InitProgress ==
  /\ \E list \in ProgressLists : state = [getInitialState EXCEPT !.currentList = list]
  /\ history = <<>>
  /\ timers = 0
  /\ now = 0
  /\ lastOp = OpRec("init", 0, 0, 0, "", 0, FALSE, FALSE)
  /\ shadow = <<>>
  /\ zrun = ZIdle
  /\ urun = [m |-> 0, u |-> 0]
  /\ listeners = <<>>
  /\ subs = [f \in ListenerFns |-> 0]
  /\ invoked = <<>>
  /\ alias = {}

GetPackingProgress ==
  /\ lastOp' = OpRec("getPackingProgress", 0, 0, 0, "",
                     getPackingProgress(getState(store)), FALSE, FALSE)
  /\ UNCHANGED <<state, history, timers, now, shadow, zrun, urun, listeners, subs, invoked, alias>>

GetStageProgress(stageId) ==
  /\ lastOp' = OpRec("getStageProgress", stageId, 0, 0, "",
                     getStageProgress(getState(store), stageId), FALSE, FALSE)
  /\ UNCHANGED <<state, history, timers, now, shadow, zrun, urun, listeners, subs, invoked, alias>>

NextProgress ==
  \/ GetPackingProgress
  \/ \E stageId \in AnyId : GetStageProgress(stageId)

SpecProgress == InitProgress /\ [][NextProgress]_vars

\* the number of entities of scope that are done
Done(scope, IsDone(_)) == Cardinality({k \in DOMAIN scope : IsDone(scope[k])})

\* ret is an integer of 0..100 that is nearest to the share done / total
RoundedShare(done, total, ret) ==
  /\ ret \in 0..100
  /\ total = 0 => ret = 0
  /\ total > 0 => /\ 2 * (100 * done - ret * total) <= total
                  /\ 2 * (ret * total - 100 * done) <= total

ExactEnds(done, total, ret) ==
  /\ ret = 100 <=> (total > 0 /\ done = total)
  /\ total > 0 => (ret = 0 <=> done = 0)

\* the scope the last call looked at
Measured ==
  IF lastOp.name = "getPackingProgress" THEN FieldOrEmpty(state.currentList, "items")
  ELSE IF Has(FieldOrEmpty(state.currentList, "stages"), lastOp.a)
  THEN Find(state.currentList.stages, lastOp.a).tasks
  ELSE <<>>

MeasuredDone ==
  IF lastOp.name = "getPackingProgress" THEN Done(Measured, LAMBDA i : i.packed)
  ELSE Done(Measured, LAMBDA t : t.completed)

Measuring == lastOp.name \in {"getPackingProgress", "getStageProgress"}

\* C38: getPackingProgress() and getStageProgress(stage) return an integer of
\* 0..100 equal to the rounded share of packed items or completed tasks: 0
\* when there is no document, no such stage or no item or task, 100 exactly
\* when there is at least one and all are packed or completed, and 0 exactly
\* when none is.
C38_ProgressPercentage ==
  Measuring => /\ RoundedShare(MeasuredDone, Len(Measured), lastOp.ret)
               /\ ExactEnds(MeasuredDone, Len(Measured), lastOp.ret)

\* the result is a nearest integer of the share; all done gives 100 and
\* none done gives 0
ProgressIsRoundedShare ==
  Measuring => /\ RoundedShare(MeasuredDone, Len(Measured), lastOp.ret)
               /\ (Len(Measured) > 0 /\ MeasuredDone = Len(Measured)) => lastOp.ret = 100
               /\ MeasuredDone = 0 => lastOp.ret = 0

\* 100 and 0 are returned for nothing else as long as there are fewer than
\* 200 items or tasks
ExactEndsBelow200 ==
  Measuring /\ Len(Measured) < 200 => ExactEnds(MeasuredDone, Len(Measured), lastOp.ret)

====
